---- MODULE Spec2Model ----
(***************************************************************************)
(* State-machine model of the feed ingestion engine of SachengRSS:         *)
(* the useRSS hook (app/src/hooks/useRSS.ts) and the resolver / converter  *)
(* of lib/rssParser.                                                       *)
(*                                                                         *)
(* JavaScript runs one task at a time.  An action of this model is one     *)
(* macrotask (a user call, a resolver settling, a timer firing) together   *)
(* with the microtasks it triggers: everything the code does up to the     *)
(* next await on the network or on a timer.  React state setters are       *)
(* functional updaters (prev => ...), which React queues and runs in call  *)
(* order at the next render.  An updater that is a function of prev alone  *)
(* is modelled as an immediate assignment; the updaters that read the      *)
(* clock (useRSS.ts:116-123, 407-411) are kept in updaters until the       *)
(* render runs them.  A render is a step of its own: the callbacks          *)
(* addFeedsBatch, addFeed, refreshFeed and refreshAllFeeds (useCallback     *)
(* over [feeds]) read the Feed list of the last render.  The effects of a   *)
(* render are a step of their own as well: React runs them after the        *)
(* commit, in a later task, and a save effect runs when the render followed *)
(* a call of its setter.                                                    *)
(*                                                                         *)
(* The Chinese message literals of the source are written in ASCII:        *)
(*   "cancelled"        for the message thrown on abort   (useRSS.ts:219)  *)
(*   "timeout"          for the 30 s timer's message      (useRSS.ts:221)  *)
(*   "notfound"         for the resolver's error          (part_001:213)   *)
(*   "noarticles"       for the empty feed message        (useRSS.ts:228)  *)
(*   "badprotocol"      for the scheme message            (useRSS.ts:166)  *)
(*   "badformat"        for the syntax message            (useRSS.ts:171)  *)
(*   "exists"           for the duplicate message         (useRSS.ts:310)  *)
(***************************************************************************)
EXTENDS Integers, Sequences, FiniteSets, TLC

VARIABLES
    feeds,            \* useState<RSSFeed[]>: the Feed list, newest first
    items,            \* useState<RSSItem[]>: the Entry list
    isLoading,        \* useState(false)
    error,            \* useState<string | null>
    addFeedAbortRef,  \* useRef<AbortController | null>: id of an add operation
    ops,              \* the add operations started so far (addFeed / addFeedsBatch calls)
    pending,          \* resolver calls started and not yet settled: {<<op, candidate>>}
    refreshes,        \* the refreshFeed calls started so far
    nextId,           \* source of generateId() values
    now,              \* Date.now()
    userActs,         \* number of flag actions taken by the user
    refreshProgress,  \* useState<{current, total} | null>
    refreshAlls,      \* the refreshAllFeeds calls started so far
    storage,          \* localStorage: the saved Feed list, Entry list and translations
    rendered,         \* the state of the last render (what its callbacks close over)
    translationCache, \* useState<TranslationCache>: the translations, in key order
    dirty,            \* the states whose setter has been called since the last render
    updaters,         \* the queued updaters that read the clock when the render runs them
    effects,          \* the save effects of the last render that have not run yet
    isDataLoadedRef,            \* useRef(false)
    isInitialLoadCompleteRef,   \* useRef(false)
    calls             \* the resolver calls that have gone past their first fetch

loadVars == <<storage, rendered, effects, isDataLoadedRef, isInitialLoadCompleteRef>>

storeVars == <<loadVars, translationCache, dirty, updaters>>

resolverVars == <<calls>>

vars == <<feeds, items, isLoading, error, addFeedAbortRef, ops, pending,
          refreshes, nextId, now, userActs, refreshProgress, refreshAlls,
          storeVars, resolverVars>>

----------------------------------------------------------------------------
(* Bounds of the model *)

MaxSubmitted == 3    \* URL strings handed to addFeed / addFeedsBatch in one behaviour
MaxRefresh == 1      \* refreshFeed calls started in one behaviour
MaxUser == 2         \* user flag actions in one behaviour
MaxNow == 1          \* clock ticks in one behaviour
PoolExtra == 1       \* candidates beyond the pool width in the pool batch
MaxRefreshAll == 1   \* refreshAllFeeds calls started in one behaviour
ExtraFeeds == 1      \* stored feeds beyond the chunk width of refreshAllFeeds

(* Program constants *)

MAX_CONCURRENT == 10
CONCURRENT_REQUESTS == 10
NoController == 0    \* addFeedAbortRef.current = null
NoProgress == << >>   \* refreshProgress = null

----------------------------------------------------------------------------
(* URL strings.  A string is its text and whether it carries surrounding   *)
(* ASCII whitespace; String.prototype.trim removes the whitespace.         *)

UrlA     == [pad |-> FALSE, body |-> "http://a.example/feed"]
UrlApad  == [pad |-> TRUE,  body |-> "http://a.example/feed"]
UrlB     == [pad |-> FALSE, body |-> "https://b.example/rss"]
UrlDown  == [pad |-> FALSE, body |-> "http://down.example/feed"]
UrlFtp   == [pad |-> FALSE, body |-> "ftp://c.example/feed"]
UrlBad   == [pad |-> FALSE, body |-> "not a url"]
UrlDup   == [pad |-> FALSE, body |-> "http://dup.example/feed"]

UrlStrings == {UrlA, UrlApad, UrlB, UrlDown, UrlFtp, UrlBad}

Trim(u) == [u EXCEPT !.pad = FALSE]

(* new URL(s).protocol; "invalid" stands for the TypeError it throws.  The *)
(* URL parser strips leading and trailing ASCII whitespace itself.         *)
URLProtocol(u) ==
    CASE u.body = "http://a.example/feed"    -> "http:"
      [] u.body = "https://b.example/rss"    -> "https:"
      [] u.body = "http://down.example/feed" -> "http:"
      [] u.body = "ftp://c.example/feed"     -> "ftp:"
      [] u.body = "http://s.example"         -> "http:"
      [] u.body = "http://e.example"         -> "http:"
      [] u.body = "http://dup.example/feed"  -> "http:"
      [] OTHER                               -> "invalid"

----------------------------------------------------------------------------
(* The network: what parseRSSFeed(url) can produce.                        *)

PI(guid, link, title, content, snippet) ==
    [guid |-> guid, link |-> link, title |-> title, content |-> content,
     contentSnippet |-> snippet]

FeedA1 == [title |-> "A", items |-> << PI("g1", "L1", "t1", "c1", "") >>]
FeedA2 == [title |-> "A", items |-> << PI("g1", "L1", "t2", "c2", ""),
                                       PI("", "L2", "", "", "s3") >>]
FeedB  == [title |-> "B", items |-> << PI("g3", "L1", "t4", "c4", "") >>]

(* A feed whose two items carry the same guid, and one whose first item   *)
(* has the guid "1" and whose second item has none                         *)
FeedDup1 == [title |-> "D", items |-> << PI("g1", "L5", "t5", "c5", ""),
                                         PI("g1", "L6", "t6", "c6", "") >>]
FeedDup2 == [title |-> "D", items |-> << PI("1", "L5", "t5", "c5", ""),
                                         PI("", "L6", "t6", "c6", "") >>]

NoParse == [title |-> "", items |-> << >>]

(* parseRSSFeed trims its argument, so the outcome depends on the trimmed  *)
(* text only.  It returns a feed only when the feed has at least one item  *)
(* and throws otherwise.  a.example and b.example serve feeds;             *)
(* down.example serves none: the resolver throws, before or after the 30 s *)
(* item timer of the caller ("timeout": the timer wins the race).          *)
parseRSSFeed(u) ==
    CASE u.body = "http://a.example/feed" ->
             {[kind |-> "ok", parsed |-> FeedA1], [kind |-> "ok", parsed |-> FeedA2]}
      [] u.body = "https://b.example/rss" ->
             {[kind |-> "ok", parsed |-> FeedB]}
      [] u.body = "http://dup.example/feed" ->
             {[kind |-> "ok", parsed |-> FeedDup1], [kind |-> "ok", parsed |-> FeedDup2]}
      [] OTHER ->
             {[kind |-> "error", parsed |-> NoParse],
              [kind |-> "timeout", parsed |-> NoParse]}

IndexStr(i) == ToString(i)

Or(a, b) == IF a # "" THEN a ELSE b

(* Date.now() is read once for every item of a conversion: what n reads    *)
(* can return from time t on, the clock never going back                   *)
Stamps(t, n) ==
    {ts \in [1..n -> t..MaxNow] : \A i \in 1..(n - 1) : ts[i] <= ts[i + 1]}

LastStamp(t, ts) == IF ts = << >> THEN t ELSE ts[Len(ts)]

(* convertToRSSItems: index is 0-based in the source; ts[k] is what        *)
(* Date.now() returns for item k                                           *)
convertToRSSItems(parsedItems, feedId, ts) ==
    [k \in 1..Len(parsedItems) |->
        [id        |-> <<feedId, Or(parsedItems[k].guid, IndexStr(k - 1)), ts[k]>>,
         feedId    |-> feedId,
         title     |-> Or(parsedItems[k].title, "untitled"),
         link      |-> Or(parsedItems[k].link, ""),
         content   |-> Or(parsedItems[k].content, Or(parsedItems[k].contentSnippet, "")),
         isRead    |-> FALSE,
         isStarred |-> FALSE]]

----------------------------------------------------------------------------
(* addFeedsBatch: pre-filtering                                            *)

EmptyResults == [success |-> 0, failed |-> 0, skipped |-> 0, errors |-> << >>]

Fail(results, url, msg) ==
    [results EXCEPT !.failed = @ + 1, !.errors = Append(@, <<url, msg>>)]

FeedUrls(fs) == {fs[k].url : k \in 1..Len(fs)}

(* Mutant: the scheme of a well-formed URL is not checked *)
PrefilterOne_NoSchemeCheck(acc, url, existingUrls) ==
    IF URLProtocol(Trim(url)) = "invalid"
    THEN [acc EXCEPT !.results = Fail(@, url, "badformat")]
    ELSE IF Trim(url) \in existingUrls
    THEN [acc EXCEPT !.results.skipped = @ + 1]
    ELSE [acc EXCEPT !.validUrls = Append(@, Trim(url))]

(* One iteration of the for loop over urls: acc = [results, validUrls] *)
PrefilterOne(acc, url, existingUrls) ==
    IF URLProtocol(Trim(url)) = "invalid"
    THEN [acc EXCEPT !.results = Fail(@, url, "badformat")]
    ELSE IF URLProtocol(Trim(url)) \notin {"http:", "https:"}
    THEN [acc EXCEPT !.results = Fail(@, url, "badprotocol")]
    ELSE IF Trim(url) \in existingUrls
    THEN [acc EXCEPT !.results.skipped = @ + 1]
    ELSE [acc EXCEPT !.validUrls = Append(@, Trim(url))]

RECURSIVE Prefilter(_, _, _)
Prefilter(acc, urls, existingUrls) ==
    IF urls = << >> THEN acc
    ELSE Prefilter(PrefilterOne(acc, Head(urls), existingUrls), Tail(urls), existingUrls)

----------------------------------------------------------------------------
(* Add operations.  One record per call of addFeed / addFeedsBatch; the    *)
(* call's AbortController is identified with the call (its position in     *)
(* ops).  st[k] is the state of candidate k of newUrls:                    *)
(*   "unclaimed"  not yet taken by a worker                                *)
(*   "waiting"    a worker awaits the race of lines 216-222 / 318-328      *)
(*   "success"    committed            "failed"   counted as failed        *)
(*   "cancelled"  the worker left the loop on the abort message            *)
(* ret is what the call has delivered to its caller: "pending", "results"  *)
(* (the batch's results object), "true" / "false" (addFeed), "threw".      *)
(* existingUrls is the call's view of the Feed list (the feeds of its      *)
(* closure); commits lists the ids of the Feeds the call has committed.    *)

Min(a, b) == IF a < b THEN a ELSE b

(* URL strings handed in so far *)
RECURSIVE Submitted(_)
Submitted(os) == IF os = << >> THEN 0 ELSE Len(Head(os).urls) + Submitted(Tail(os))

Waiting(op) == {k \in 1..Len(op.st) : op.st[k] = "waiting"}

NewOp(kind, urls, existingUrls, newUrls, results) ==
    [kind      |-> kind,
     urls      |-> urls,
     existingUrls |-> existingUrls,
     newUrls   |-> newUrls,
     st        |-> [k \in 1..Len(newUrls) |-> "unclaimed"],
     index     |-> 0,
     claimed   |-> << >>,
     completed |-> 0,
     total     |-> Len(newUrls),
     results   |-> results,
     progress  |-> << >>,
     aborted   |-> FALSE,
     ret       |-> "pending",
     thrown    |-> "",
     commits   |-> << >>]

(* Mutant: the catch counts the abort message like any other error *)
OnCancelled_CountsFailure(results, url) == Fail(results, url, "cancelled")

(* catch (err): err.message is the abort message -> break (lines 247-249)  *)
OnCancelled(results, url) == results

(* Mutant: an item that ends on the 30 s timer is not counted *)
OnError_DropsTimeout(results, url, msg) ==
    IF msg = "timeout" THEN results ELSE Fail(results, url, msg)

(* catch (err): any other error (lines 250-251) *)
OnError(results, url, msg) == Fail(results, url, msg)

(* finally (line 253) *)
CompletedAfter(completed) == completed + 1

(* Mutant: the callback runs whatever the state of the signal *)
OnProgress_IgnoresAbort(progress, completed, total, aborted) ==
    Append(progress, <<completed, total>>)

(* Mutant: the callback runs before the counter is incremented *)
OnProgress_BeforeIncrement(progress, completed, total, aborted) ==
    IF ~aborted THEN Append(progress, <<completed - 1, total>>) ELSE progress

(* finally (lines 253-256): the callback runs unless the signal is aborted *)
OnProgress(progress, completed, total, aborted) ==
    IF ~aborted THEN Append(progress, <<completed, total>>) ELSE progress

(* controller.abort() followed by the microtasks it queues: each abort     *)
(* listener rejects its race, every waiting worker catches the abort       *)
(* message and breaks, Promise.all resolves and the call returns.          *)
RECURSIVE CancelAll(_, _, _)
CancelAll(results, urls, ks) ==
    IF ks = {} THEN results
    ELSE LET k == CHOOSE x \in ks : \A y \in ks : x <= y
         IN  CancelAll(OnCancelled(results, urls[k]), urls, ks \ {k})

(* What addFeedsBatch delivers once Promise.all has resolved (line 278) *)
BatchReturn(aborted) == "results"

(* The finally of lines 252-257 for n workers that have caught the abort   *)
(* message, one after the other                                            *)
RECURSIVE AbandonAll(_, _, _, _)
AbandonAll(progress, completed, total, n) ==
    IF n = 0 THEN progress
    ELSE AbandonAll(OnProgress(progress, CompletedAfter(completed), total, TRUE),
                    CompletedAfter(completed), total, n - 1)

AbortOp(op) ==
    IF op.ret # "pending" THEN [op EXCEPT !.aborted = TRUE]
    ELSE [op EXCEPT
            !.aborted   = TRUE,
            !.progress  = IF op.kind = "batch"
                          THEN AbandonAll(@, op.completed, op.total,
                                          Cardinality(Waiting(op)))
                          ELSE @,
            !.st        = [k \in 1..Len(op.st) |->
                              IF op.st[k] = "waiting" THEN "cancelled" ELSE op.st[k]],
            !.results   = CancelAll(op.results, op.newUrls, Waiting(op)),
            !.completed = IF op.kind = "batch" THEN @ + Cardinality(Waiting(op)) ELSE @,
            !.ret       = IF op.kind = "batch" THEN BatchReturn(TRUE) ELSE "false"]

(* ops after the controller held in ref (if any) has been aborted *)
AbortCurrent(os, ref) ==
    IF ref = NoController THEN os ELSE [os EXCEPT ![ref] = AbortOp(@)]

(* addFeed's finally (line 362) clears the ref whatever it holds *)
RefAfterAbort(os, ref, new) ==
    IF ref # NoController /\ os[ref].kind = "add" THEN NoController ELSE new

(* addFeed's catch on the abort message (lines 354-358): it returns false  *)
(* before setError; e is the error state at that moment                    *)
AddCancelled(e) == e

ErrorAfterAbort(os, ref, e) ==
    IF ref # NoController /\ os[ref].kind = "add" /\ os[ref].ret = "pending"
    THEN AddCancelled(e) ELSE e

(* Mutant: cancelling rolls back what the cancelled operation committed *)
CancelAddFeed_Rollback ==
    LET gone == IF addFeedAbortRef = NoController THEN {}
                ELSE {ops[addFeedAbortRef].commits[k] :
                         k \in 1..Len(ops[addFeedAbortRef].commits)}
    IN  /\ ops' = AbortCurrent(ops, addFeedAbortRef)
        /\ addFeedAbortRef' = NoController
        /\ isLoading' = FALSE
        /\ error' = ErrorAfterAbort(ops, addFeedAbortRef, "null")
        /\ feeds' = SelectSeq(feeds, LAMBDA f : f.id \notin gone)
        /\ items' = SelectSeq(items, LAMBDA i : i.feedId \notin gone)
        /\ dirty' = dirty \cup {"feeds", "items"}
        /\ UNCHANGED <<pending, refreshes, nextId, now, userActs, refreshProgress, refreshAlls,
                   loadVars, translationCache, updaters, resolverVars>>

(* cancelAddFeed (lines 135-142) *)
CancelAddFeed ==
    /\ ops' = AbortCurrent(ops, addFeedAbortRef)
    /\ addFeedAbortRef' = NoController
    /\ isLoading' = FALSE
    /\ error' = ErrorAfterAbort(ops, addFeedAbortRef, "null")
    /\ UNCHANGED <<feeds, items, pending, refreshes, nextId, now, userActs, refreshProgress, refreshAlls,
                   storeVars, resolverVars>>

(* The worker's claim (lines 208-213): the next index, unless none is left *)
(* or the signal is aborted.                                               *)
CanClaim(op) == op.index < Len(op.newUrls) /\ ~op.aborted

(* Mutant: the claim reads the index and does not advance it *)
Claim_SameIndex(op) ==
    IF CanClaim(op)
    THEN [op EXCEPT !.st[op.index + 1] = "waiting", !.claimed = Append(@, op.index + 1)]
    ELSE op

(* newUrls[index++] (line 214); claimed lists the indices the workers     *)
(* have taken, 1-based                                                     *)
Claim(op) ==
    IF CanClaim(op)
    THEN [op EXCEPT !.st[op.index + 1] = "waiting", !.index = @ + 1,
                    !.claimed = Append(@, op.index + 1)]
    ELSE op

(* executeBatch (lines 262-266): min(MAX_CONCURRENT, n) workers, each runs *)
(* to its first await.                                                     *)
RECURSIVE StartWorkers(_, _)
StartWorkers(op, n) == IF n = 0 THEN op ELSE StartWorkers(Claim(op), n - 1)

NumWorkers(n) == Min(MAX_CONCURRENT, n)

(* addFeedsBatch up to its first await (lines 149-200, 262-266) *)
StartBatch(urls) ==
    /\ urls # << >>
    /\ Submitted(ops) + Len(urls) <= MaxSubmitted
    /\ LET pre == Prefilter([results |-> EmptyResults, validUrls |-> << >>],
                            urls, FeedUrls(rendered.feeds))
           o   == Len(ops) + 1
           op0 == NewOp("batch", urls, FeedUrls(rendered.feeds), pre.validUrls, pre.results)
       IN  IF pre.validUrls = << >>
           THEN /\ ops' = Append(ops, [op0 EXCEPT !.ret = "results"])
                /\ UNCHANGED <<addFeedAbortRef, isLoading, pending>>
                /\ error' = error
           ELSE LET op1 == StartWorkers(op0, NumWorkers(Len(pre.validUrls)))
                IN  /\ ops' = Append(AbortCurrent(ops, addFeedAbortRef), op1)
                    /\ addFeedAbortRef' = RefAfterAbort(ops, addFeedAbortRef, o)
                    /\ isLoading' = (addFeedAbortRef = NoController)
                    /\ pending' = pending \cup {<<o, k>> : k \in Waiting(op1)}
                    /\ error' = ErrorAfterAbort(ops, addFeedAbortRef, error)
    /\ UNCHANGED <<feeds, items, refreshes, nextId, now, userActs, refreshProgress, refreshAlls,
                   storeVars, resolverVars>>

----------------------------------------------------------------------------
(* Commit of a resolved feed (lines 230-244 and 339-350)                   *)

NewFeed(id, parsed, url, t) ==
    [id |-> id, title |-> parsed.title, url |-> url, lastUpdated |-> t]

(* Mutant: the commit writes a list computed from a stale Feed list *)
CommitFeed_Stale(prev, newFeed) == <<newFeed>>

(* setFeeds(prev => [newFeed, ...prev]) *)
CommitFeed(prev, newFeed) == <<newFeed>> \o prev

(* Mutant: a commit clears the read flag of the Entries already stored *)
CommitItems_ResetsFlags(prev, newItems) ==
    newItems \o [k \in 1..Len(prev) |-> [prev[k] EXCEPT !.isRead = FALSE]]

(* setItems(prev => [...newItems, ...prev]) *)
CommitItems(prev, newItems) == newItems \o prev

(* The message of the error that ends the race *)
ErrorMsg(out) == IF out.kind = "timeout" THEN "timeout" ELSE "notfound"

(* Mutant: a feed without items counts as a success *)
WorkerResult_CountsEmpty(results, url, out) ==
    IF out.kind # "ok" THEN OnError(results, url, ErrorMsg(out))
    ELSE [results EXCEPT !.success = @ + 1]

(* The try block after the race (lines 224-245): the worker's results *)
WorkerResult(results, url, out) ==
    IF out.kind # "ok" THEN OnError(results, url, ErrorMsg(out))
    ELSE IF Len(out.parsed.items) = 0 THEN Fail(results, url, "noarticles")
    ELSE [results EXCEPT !.success = @ + 1]

Commits(out) == out.kind = "ok" /\ Len(out.parsed.items) > 0

(* Mutant: the batch does not return when its last worker has finished *)
FinishBatch_NoReturn(op) == op

(* The end of addFeedsBatch (lines 271-278), once no worker is left *)
FinishBatch(op) ==
    IF Waiting(op) = {} THEN [op EXCEPT !.ret = BatchReturn(op.aborted)] ELSE op

(* Mutant: a failed item ends the batch and its siblings with it *)
WorkerResume_AbortsSiblings(op, k, out) ==
    LET url  == op.newUrls[k]
        done == [op EXCEPT
                   !.st[k]     = IF op.aborted THEN "cancelled"
                                 ELSE IF Commits(out) THEN "success" ELSE "failed",
                   !.results   = IF op.aborted THEN OnCancelled(@, url)
                                 ELSE WorkerResult(@, url, out),
                   !.completed = CompletedAfter(@),
                   !.progress  = OnProgress(@, CompletedAfter(op.completed),
                                            op.total, op.aborted)]
    IN  IF out.kind # "ok" /\ ~op.aborted
        THEN [done EXCEPT
                !.st  = [j \in 1..Len(done.st) |->
                            IF done.st[j] \in {"waiting", "unclaimed"}
                            THEN "cancelled" ELSE done.st[j]],
                !.ret = BatchReturn(FALSE)]
        ELSE FinishBatch(Claim(done))

(* One worker resumes after its race has settled with out, runs the rest   *)
(* of the loop body and claims the next candidate (lines 215-258).         *)
WorkerResume(op, k, out) ==
    LET url  == op.newUrls[k]
        done == [op EXCEPT
                   !.st[k]     = IF op.aborted THEN "cancelled"
                                 ELSE IF Commits(out) THEN "success" ELSE "failed",
                   !.results   = IF op.aborted THEN OnCancelled(@, url)
                                 ELSE WorkerResult(@, url, out),
                   !.completed = CompletedAfter(@),
                   !.progress  = OnProgress(@, CompletedAfter(op.completed),
                                            op.total, op.aborted)]
    IN  FinishBatch(Claim(done))

(* addFeed after its race has settled (lines 330-364) *)
AddResume(op, out) ==
    [op EXCEPT !.st[1] = IF op.aborted THEN "cancelled"
                         ELSE IF Commits(out) THEN "success" ELSE "failed",
               !.ret   = IF Commits(out) /\ ~op.aborted THEN "true" ELSE "false"]

AddError(out) ==
    IF out.kind # "ok" THEN ErrorMsg(out)
    ELSE IF Len(out.parsed.items) = 0 THEN "noarticles"
    ELSE "null"

Resume(op, k, out, id) ==
    LET op1 == IF op.kind = "batch" THEN WorkerResume(op, k, out) ELSE AddResume(op, out)
    IN  IF Commits(out) /\ ~op.aborted THEN [op1 EXCEPT !.commits = Append(@, id)] ELSE op1

(* The state changes of a race that has settled with out for candidate k   *)
(* of operation o; settled tells whether the resolver call itself is over. *)
RaceSettles(o, k, out, settled) ==
    LET op  == ops[o]
        url == op.newUrls[k]
        op1 == Resume(op, k, out, nextId)
    IN  /\ ops' = [ops EXCEPT ![o] = op1]
        /\ IF Commits(out) /\ ~op.aborted
           THEN \* Date.now() of lastUpdated, then one read for every item
                \E t \in now..MaxNow : \E ts \in Stamps(t, Len(out.parsed.items)) :
                   LET newFeed == NewFeed(nextId, out.parsed, url, t)
                   IN  /\ feeds' = CommitFeed(feeds, newFeed)
                       /\ items' = CommitItems(items,
                                       convertToRSSItems(out.parsed.items, newFeed.id, ts))
                       /\ nextId' = nextId + 1
                       /\ now' = LastStamp(t, ts)
                       /\ dirty' = dirty \cup {"feeds", "items"}
           ELSE UNCHANGED <<feeds, items, nextId, now, dirty>>
        /\ pending' = (IF settled THEN pending \ {<<o, k>>} ELSE pending)
                         \cup {<<o, j>> : j \in Waiting(op1)}
        /\ IF op.kind = "add"
           THEN /\ addFeedAbortRef' = NoController
                /\ isLoading' = FALSE
                /\ error' = IF op.aborted THEN AddCancelled(error)
                            ELSE IF Commits(out) THEN error ELSE AddError(out)
           ELSE /\ addFeedAbortRef' =
                      IF op1.ret # "pending" /\ ~op1.aborted
                      THEN NoController ELSE addFeedAbortRef
                /\ isLoading' = IF op1.ret # "pending" THEN FALSE ELSE isLoading
                /\ UNCHANGED error
        /\ UNCHANGED <<refreshes, userActs, refreshProgress, refreshAlls,
                       loadVars, translationCache, updaters>>

(* parseRSSFeed settles (resolves or throws) before the 30 s timer *)
ResolverSettles(o, k) ==
    /\ o \in 1..Len(ops)
    /\ k \in Waiting(ops[o])
    /\ \E out \in parseRSSFeed(Trim(ops[o].newUrls[k])) :
          /\ out.kind # "timeout"
          /\ RaceSettles(o, k, out, TRUE)
    /\ UNCHANGED resolverVars

(* The 30 s timer of lines 221 / 326 fires first; the resolver call goes on *)
ItemTimeout(o, k) ==
    /\ o \in 1..Len(ops)
    /\ k \in Waiting(ops[o])
    /\ \E out \in parseRSSFeed(Trim(ops[o].newUrls[k])) :
          /\ out.kind = "timeout"
          /\ RaceSettles(o, k, out, FALSE)
    /\ UNCHANGED resolverVars

(* A resolver call whose race is over settles; nobody reads its result *)
LateSettle(o, k) ==
    /\ <<o, k>> \in pending
    /\ k \notin Waiting(ops[o])
    /\ pending' = pending \ {<<o, k>>}
    /\ UNCHANGED <<feeds, items, isLoading, error, addFeedAbortRef, ops,
                   refreshes, nextId, now, userActs, refreshProgress, refreshAlls,
                   storeVars, resolverVars>>

(* The callers against the interface of the resolver alone: the promise   *)
(* of parseRSSFeed is fulfilled with a value of its type ParsedFeed        *)
ParsedFeeds(u) ==
    CASE u.body = "http://a.example/feed" -> {FeedA1, FeedA2}
      [] u.body = "https://b.example/rss" -> {FeedB}
      [] OTHER -> {[title |-> "E", items |-> << >>]}

ResolverReturns(o, k) ==
    /\ o \in 1..Len(ops)
    /\ k \in Waiting(ops[o])
    /\ \E feed \in ParsedFeeds(ops[o].newUrls[k]) :
          RaceSettles(o, k, [kind |-> "ok", parsed |-> feed], TRUE)
    /\ UNCHANGED resolverVars

----------------------------------------------------------------------------
(* The resolver step by step (rssParser, part_001 lines 18-214).  calls    *)
(* holds the state of a parseRSSFeed call in progress, one fetch at a      *)
(* time; a pending call that calls does not hold has not had a response.   *)

RSS_SUFFIXES ==
    <<"", "/feed", "/feed/", "/rss", "/rss/", "/index.xml", "/feed.xml",
      "/rss.xml", "?format=rss", "?format=atom", "/atom", "/atom.xml">>

CORS_PROXIES == <<"api.allorigins.win", "corsproxy.io", "api.codetabs.com">>

(* URL strings that end in slashes: body is the text without them *)
UrlSiteSlash   == [pad |-> TRUE,  body |-> "http://s.example", slashes |-> 1]
UrlSiteSlashes == [pad |-> FALSE, body |-> "http://s.example", slashes |-> 2]
UrlBSlash      == [pad |-> TRUE,  body |-> "https://b.example/rss", slashes |-> 1]
UrlEmpty       == [pad |-> FALSE, body |-> "http://e.example", slashes |-> 0]

TrailingSlashes(u) == IF "slashes" \in DOMAIN u THEN u.slashes ELSE 0

(* url.trim().replace(/\/$/, ''): one trailing slash is removed *)
BaseUrl(u) == u.body \o (IF TrailingSlashes(u) > 1 THEN "/" ELSE "")

(* What the origin servers answer.  s.example has a feed at /feed and      *)
(* another at /rss and a page everywhere else; e.example serves a feed     *)
(* without items.                                                          *)
FeedS1 == [title |-> "S", items |-> << PI("g1", "L1", "t1", "c1", "") >>]
FeedS2 == [title |-> "S2", items |-> << PI("g2", "L2", "t2", "c2", "") >>]
FeedE  == [title |-> "E", items |-> << >>]

Html == [kind |-> "html", feed |-> NoParse]
Xml(feed) == [kind |-> "xml", feed |-> feed]

Origin(url) ==
    CASE url = "https://b.example/rss"   -> Xml(FeedB)
      [] url = "http://s.example/feed"   -> Xml(FeedS1)
      [] url = "http://s.example/rss"    -> Xml(FeedS2)
      [] url = "http://e.example"        -> Xml(FeedE)
      [] OTHER                           -> Html

(* How relay r can answer a fetch of url: "ok" (a success status, the body *)
(* is the origin's), "status" (a non-success status), "neterror" (fetch    *)
(* rejects) or "timeout" (the 15 s timer aborts the fetch)                 *)
RelayOutcomes(url, r) ==
    CASE url = "http://s.example/feed" ->
             CASE r = 1 -> {"ok", "status", "neterror"}
               [] r = 2 -> {"ok", "timeout"}
               [] OTHER -> {"ok", "neterror"}
      [] url = "http://s.example/rss" -> {"ok", "neterror"}
      [] OTHER -> {"ok"}

(* One tryParseUrl call: relay is the relay whose fetch is in flight while *)
(* fetched is "pending"; tried lists how the relays before it answered      *)
NewAttempt ==
    [relay |-> 1, tried |-> << >>, lastError |-> "null", fetched |-> "pending",
     body |-> Html, thrown |-> "null"]

(* Mutant: a non-success status ends the attempt *)
fetchWithProxy_StopsOnStatus(att, x, body) ==
    LET tried == Append(att.tried, x)
        lastError == IF x \in {"neterror", "timeout"} THEN x ELSE att.lastError
    IN  IF x = "ok"
        THEN [att EXCEPT !.tried = tried, !.fetched = "text", !.body = body]
        ELSE IF att.relay < Len(CORS_PROXIES) /\ x # "status"
        THEN [att EXCEPT !.tried = tried, !.lastError = lastError, !.relay = @ + 1]
        ELSE [att EXCEPT !.tried = tried, !.lastError = lastError, !.fetched = "thrown",
                         !.thrown = IF lastError # "null" THEN lastError ELSE "network"]

(* fetchWithProxy (lines 76-94) when the relay in flight answers x *)
fetchWithProxy(att, x, body) ==
    LET tried == Append(att.tried, x)
        lastError == IF x \in {"neterror", "timeout"} THEN x ELSE att.lastError
    IN  IF x = "ok"
        THEN [att EXCEPT !.tried = tried, !.fetched = "text", !.body = body]
        ELSE IF att.relay < Len(CORS_PROXIES)
        THEN [att EXCEPT !.tried = tried, !.lastError = lastError, !.relay = @ + 1]
        ELSE [att EXCEPT !.tried = tried, !.lastError = lastError, !.fetched = "thrown",
                         !.thrown = IF lastError # "null" THEN lastError ELSE "network"]

Unsettled == [kind |-> "pending", parsed |-> NoParse]
Null      == [kind |-> "null", parsed |-> NoParse]

(* tryParseUrl (lines 97-179): null when the fetch threw or the text is    *)
(* not a feed document                                                     *)
tryParseUrl(att) ==
    CASE att.fetched = "pending" -> Unsettled
      [] att.fetched = "thrown"  -> Null
      [] att.body.kind # "xml"   -> Null
      [] OTHER                   -> [kind |-> "feed", parsed |-> att.body.feed]

(* Mutant: the direct result is never taken *)
Usable_Never(res) == FALSE

(* result && result.items.length > 0 (lines 187, 195) *)
Usable(res) == res.kind = "feed" /\ Len(res.parsed.items) > 0

(* A parseRSSFeed call: attempt 0 is the direct one, attempts 1..11 are    *)
(* the suffix attempts, which exist once they are issued; firstDone is the *)
(* suffix attempt that was the first to end with a usable feed             *)
NewCall(u) ==
    [base |-> BaseUrl(u), direct |-> NewAttempt, suffixes |-> << >>, firstDone |-> 0,
     out |-> [kind |-> "pending", parsed |-> NoParse, cause |-> "none"]]

CallOf(c) == IF c \in DOMAIN calls THEN calls[c] ELSE NewCall(ops[c[1]].newUrls[c[2]])

AttemptUrl(call, i) == call.base \o RSS_SUFFIXES[i + 1]

AttemptOf(call, i) == IF i = 0 THEN call.direct ELSE call.suffixes[i]

FetchesOf(call) ==
    {i \in 0..Len(call.suffixes) : AttemptOf(call, i).fetched = "pending"}

(* Mutant: the suffix attempt that was first to complete wins *)
FindSuccessful_FirstDone(suffixes, firstDone) == firstDone

(* results.find(r => r !== null) over the results of Promise.all, which are *)
(* in the order of the list: the index of the winner, 0 if there is none    *)
FindSuccessful(suffixes, firstDone) ==
    IF \E i \in 1..Len(suffixes) : Usable(tryParseUrl(suffixes[i]))
    THEN CHOOSE i \in 1..Len(suffixes) :
            /\ Usable(tryParseUrl(suffixes[i]))
            /\ \A j \in 1..(i - 1) : ~Usable(tryParseUrl(suffixes[j]))
    ELSE 0

Returned(feed) == [kind |-> "ok", parsed |-> feed, cause |-> "none"]

(* throw new Error('...') of line 213: a new error without a cause *)
NotFound == [kind |-> "error", parsed |-> NoParse, cause |-> "none"]

(* parseRSSFeed (lines 182-214) when attempt i has settled as att *)
ResolverStep(call, i, att) ==
    IF i = 0
    THEN IF att.fetched = "pending" THEN [call EXCEPT !.direct = att]
         ELSE IF Usable(tryParseUrl(att))
         THEN [call EXCEPT !.direct = att, !.out = Returned(tryParseUrl(att).parsed)]
         ELSE [call EXCEPT !.direct = att,
                           !.suffixes = [j \in 1..(Len(RSS_SUFFIXES) - 1) |-> NewAttempt]]
    ELSE LET sfx  == [call.suffixes EXCEPT ![i] = att]
             fd   == IF call.firstDone = 0 /\ Usable(tryParseUrl(att)) THEN i
                     ELSE call.firstDone
             all  == \A j \in 1..Len(sfx) : sfx[j].fetched # "pending"
             w    == FindSuccessful(sfx, fd)
         IN  [call EXCEPT !.suffixes = sfx, !.firstDone = fd,
                          !.out = IF ~all THEN @
                                  ELSE IF w # 0 THEN Returned(tryParseUrl(sfx[w]).parsed)
                                  ELSE NotFound]

(* Relay answers the fetch in flight of attempt i of call c with x; when   *)
(* this ends the call, the race of the caller settles in the same task.    *)
(* Nothing aborts a call whose race the timer or the abort signal has      *)
(* ended: it goes on with its fetches, and nobody reads what it returns.   *)
FetchSettles(c, i, x) ==
    /\ c \in pending
    /\ LET call == CallOf(c)
           att  == AttemptOf(call, i)
           url  == AttemptUrl(call, i)
           new  == ResolverStep(call, i, fetchWithProxy(att, x, Origin(url)))
       IN  /\ i \in FetchesOf(call)
           /\ x \in RelayOutcomes(url, att.relay)
           /\ calls' = [d \in DOMAIN calls \cup {c} |-> IF d = c THEN new ELSE calls[d]]
           /\ IF new.out.kind = "pending"
              THEN UNCHANGED <<feeds, items, isLoading, error, addFeedAbortRef, ops,
                               pending, refreshes, nextId, now, userActs,
                               refreshProgress, refreshAlls, storeVars>>
              ELSE IF c[2] \in Waiting(ops[c[1]])
              THEN RaceSettles(c[1], c[2], [kind |-> new.out.kind, parsed |-> new.out.parsed],
                               TRUE)
              ELSE /\ pending' = pending \ {c}
                   /\ UNCHANGED <<feeds, items, isLoading, error, addFeedAbortRef, ops,
                                   refreshes, nextId, now, userActs,
                                   refreshProgress, refreshAlls, storeVars>>

----------------------------------------------------------------------------
(* addFeed up to its first await (lines 282-328)                           *)

ValidScheme(url) == URLProtocol(url) \in {"http:", "https:"}

StartAddFeed(url) ==
    /\ Submitted(ops) + 1 <= MaxSubmitted
    /\ LET o   == Len(ops) + 1
           op0 == NewOp("add", <<url>>, FeedUrls(rendered.feeds), <<url>>, EmptyResults)
       IN  IF ~ValidScheme(url)
           THEN \* both throws of lines 285-293 leave as the syntax error
                /\ ops' = Append(ops, [op0 EXCEPT !.ret = "threw", !.thrown = "badformat"])
                /\ UNCHANGED <<addFeedAbortRef, isLoading, error, pending>>
           ELSE IF \E f \in 1..Len(rendered.feeds) : rendered.feeds[f].url = Trim(url)
           THEN \* duplicate: thrown and caught inside the try (lines 308-311)
                /\ ops' = Append(AbortCurrent(ops, addFeedAbortRef),
                                 [op0 EXCEPT !.ret = "false", !.st[1] = "failed"])
                /\ addFeedAbortRef' = NoController
                /\ isLoading' = FALSE
                /\ error' = "exists"
                /\ UNCHANGED pending
           ELSE /\ ops' = Append(AbortCurrent(ops, addFeedAbortRef), Claim(op0))
                /\ addFeedAbortRef' = RefAfterAbort(ops, addFeedAbortRef, o)
                /\ isLoading' = (addFeedAbortRef = NoController)
                /\ error' = ErrorAfterAbort(ops, addFeedAbortRef, "null")
                /\ pending' = pending \cup {<<o, 1>>}
    /\ UNCHANGED <<feeds, items, refreshes, nextId, now, userActs, refreshProgress, refreshAlls,
                   storeVars, resolverVars>>

----------------------------------------------------------------------------
(* refreshFeed (lines 377-417)                                             *)

(* prev.find(i => i.link === newItem.link): the first match, 0 if none *)
FindByLink(prev, link) ==
    IF \E k \in 1..Len(prev) : prev[k].link = link
    THEN CHOOSE k \in 1..Len(prev) :
            /\ prev[k].link = link
            /\ \A j \in 1..(k - 1) : prev[j].link # link
    ELSE 0

(* Mutant: the new entry is taken as converted *)
MergeOne_Fresh(newItem, prev) == newItem

(* lines 397-403 *)
MergeOne(newItem, prev) ==
    LET k == FindByLink(prev, newItem.link)
    IN  IF k # 0
        THEN [newItem EXCEPT !.isRead = prev[k].isRead, !.isStarred = prev[k].isStarred]
        ELSE newItem

NotOfFeed(prev, feedId) == SelectSeq(prev, LAMBDA i : i.feedId # feedId)

(* Mutant: the merged entries are put in front of the whole list *)
MergeItems_Accumulates(prev, newItems, feedId) ==
    [k \in 1..Len(newItems) |-> MergeOne(newItems[k], prev)] \o prev

(* the updater of lines 394-405 *)
MergeItems(prev, newItems, feedId) ==
    [k \in 1..Len(newItems) |-> MergeOne(newItems[k], prev)] \o NotOfFeed(prev, feedId)

(* The updater of lines 407-411, run by React when the clock shows t *)
TouchFeed(prev, feedId, t) ==
    [k \in 1..Len(prev) |->
        IF prev[k].id = feedId THEN [prev[k] EXCEPT !.lastUpdated = t] ELSE prev[k]]

(* Mutant: setFeeds is called whether or not the race has thrown *)
QueueTouch_Always(queue, feedId, out) == Append(queue, feedId)

(* The catch of lines 412-413 only logs: setFeeds (line 407) is called     *)
(* when the race has resolved, and React queues its updater                *)
QueueTouch(queue, feedId, out) ==
    IF out.kind = "ok" THEN Append(queue, feedId) ELSE queue

(* A pending refreshFeed call; all is the refreshAllFeeds call that made   *)
(* it, 0 for a call of its own                                             *)
NewRefresh(feed, all) ==
    [feedId |-> feed.id, url |-> feed.url, st |-> "waiting", parsed |-> NoParse,
     stamps |-> << >>, all |-> all]

SingleRefreshes(rs) == Cardinality({r \in 1..Len(rs) : rs[r].all = 0})

StartRefresh(f) ==
    /\ SingleRefreshes(refreshes) < MaxRefresh
    /\ f \in 1..Len(rendered.feeds)
    /\ refreshes' = Append(refreshes, NewRefresh(rendered.feeds[f], 0))
    /\ UNCHANGED <<feeds, items, isLoading, error, addFeedAbortRef, ops, pending,
                   nextId, now, userActs, refreshProgress, refreshAlls,
                   storeVars, resolverVars>>

(* Mutant: the rest of the list is one chunk *)
Chunk_Unbounded(fs, from) == SubSeq(fs, from, Len(fs))

(* refreshAllFeeds (lines 420-447): the feeds of the closure are refreshed *)
(* in chunks of CONCURRENT_REQUESTS; from is the 1-based start of a chunk  *)
Chunk(fs, from) == SubSeq(fs, from, Min(from + CONCURRENT_REQUESTS - 1, Len(fs)))

ChunkRefreshes(fs, from, all) ==
    [k \in 1..Len(Chunk(fs, from)) |-> NewRefresh(Chunk(fs, from)[k], all)]

StartRefreshAll ==
    /\ Len(refreshAlls) < MaxRefreshAll
    /\ rendered.feeds # << >>
    /\ LET a  == Len(refreshAlls) + 1
           fs == rendered.feeds
       IN  /\ refreshAlls' = Append(refreshAlls,
                                [feeds |-> fs, next |-> 1 + CONCURRENT_REQUESTS,
                                 completedCount |-> 0, total |-> Len(fs),
                                 reports |-> << <<0, Len(fs)>> >>,
                                 st |-> "running"])
           /\ refreshes' = refreshes \o ChunkRefreshes(fs, 1, a)
    /\ isLoading' = TRUE
    /\ refreshProgress' = <<0, Len(rendered.feeds)>>
    /\ error' = "null"
    /\ UNCHANGED <<feeds, items, addFeedAbortRef, ops, pending, nextId, now, userActs,
                   storeVars, resolverVars>>

(* setRefreshProgress({ current, total }) of line 437; reports lists what  *)
(* a refreshAllFeeds call has passed to setRefreshProgress                 *)
Reported(reports, current, total) == Append(reports, <<current, total>>)

(* The continuation of refreshAllFeeds after one of its refreshFeed calls  *)
(* has returned (lines 435-446); rs is refreshes with that call finished   *)
RefreshAllResume(rs, a) ==
    LET call == refreshAlls[a]
        cc   == call.completedCount + 1
        chunkDone == \A q \in 1..Len(rs) : rs[q].all = a => rs[q].st # "waiting"
    IN  IF ~chunkDone
        THEN /\ refreshes' = rs
             /\ refreshAlls' = [refreshAlls EXCEPT ![a].completedCount = cc,
                                                   ![a].reports = Reported(@, cc, call.total)]
             /\ refreshProgress' = <<cc, call.total>>
             /\ UNCHANGED isLoading
        ELSE IF call.next <= Len(call.feeds)
        THEN /\ refreshes' = rs \o ChunkRefreshes(call.feeds, call.next, a)
             /\ refreshAlls' = [refreshAlls EXCEPT ![a].completedCount = cc,
                                                   ![a].reports = Reported(@, cc, call.total),
                                                   ![a].next = @ + CONCURRENT_REQUESTS]
             /\ refreshProgress' = <<cc, call.total>>
             /\ UNCHANGED isLoading
        ELSE /\ refreshes' = rs
             /\ refreshAlls' = [refreshAlls EXCEPT ![a].completedCount = cc,
                                                   ![a].reports = Reported(@, cc, call.total),
                                                   ![a].st = "done"]
             /\ refreshProgress' = NoProgress
             /\ isLoading' = FALSE

(* The race of refreshFeed settles (lines 384-416) *)
RefreshSettles(r) ==
    /\ r \in 1..Len(refreshes)
    /\ refreshes[r].st = "waiting"
    /\ \E out \in parseRSSFeed(Trim(refreshes[r].url)) :
          \* one read of Date.now() for every item (part_001:225)
          \E ts \in Stamps(now, Len(out.parsed.items)) :
          LET rs == IF out.kind = "ok"
                    THEN [refreshes EXCEPT ![r].st = "done", ![r].parsed = out.parsed,
                                           ![r].stamps = ts]
                    ELSE [refreshes EXCEPT ![r].st = "failed"]
          IN  /\ IF out.kind = "ok"
                 THEN /\ items' = MergeItems(items,
                                      convertToRSSItems(out.parsed.items,
                                                        refreshes[r].feedId, ts),
                                      refreshes[r].feedId)
                      /\ now' = LastStamp(now, ts)
                      /\ dirty' = dirty \cup {"feeds", "items"}
                 ELSE UNCHANGED <<items, now, dirty>>
              /\ updaters' = [updaters EXCEPT
                                 !.feeds = QueueTouch(@, refreshes[r].feedId, out)]
              /\ IF refreshes[r].all = 0
                 THEN /\ refreshes' = rs
                      /\ UNCHANGED <<isLoading, refreshProgress, refreshAlls>>
                 ELSE RefreshAllResume(rs, refreshes[r].all)
    /\ UNCHANGED <<feeds, error, addFeedAbortRef, ops, pending, nextId, userActs,
                   loadVars, translationCache, resolverVars>>

----------------------------------------------------------------------------
(* removeFeed (lines 368-374)                                              *)

(* setFeeds(prev => prev.filter(f => f.id !== feedId)) *)
RemoveFromFeeds(prev, feedId) == SelectSeq(prev, LAMBDA f : f.id # feedId)

(* Mutant: removal leaves the Entries in place *)
RemoveFromItems_KeepsEntries(prev, feedId) == prev

(* setItems(prev => prev.filter(i => i.feedId !== feedId)) *)
RemoveFromItems(prev, feedId) == SelectSeq(prev, LAMBDA i : i.feedId # feedId)

removeFeed(feedId) ==
    /\ feeds' = RemoveFromFeeds(feeds, feedId)
    /\ items' = RemoveFromItems(items, feedId)
    /\ dirty' = dirty \cup {"feeds", "items"}
    /\ UNCHANGED <<isLoading, error, addFeedAbortRef, ops, pending, refreshes,
                   nextId, now, userActs, refreshProgress, refreshAlls,
                   loadVars, translationCache, updaters, resolverVars>>

(* The user removes a Feed of the list *)
RemoveFeed(f) ==
    /\ f \in 1..Len(feeds)
    /\ removeFeed(feeds[f].id)

----------------------------------------------------------------------------
(* User flag actions (lines 449-474)                                       *)

markAsRead(prev, itemId, v) ==
    [k \in 1..Len(prev) |->
        IF prev[k].id = itemId THEN [prev[k] EXCEPT !.isRead = v] ELSE prev[k]]

(* Mutant: the star is set, not negated *)
toggleStar_Sets(prev, itemId) ==
    [k \in 1..Len(prev) |->
        IF prev[k].id = itemId THEN [prev[k] EXCEPT !.isStarred = TRUE] ELSE prev[k]]

toggleStar(prev, itemId) ==
    [k \in 1..Len(prev) |->
        IF prev[k].id = itemId THEN [prev[k] EXCEPT !.isStarred = ~@] ELSE prev[k]]

MarkAsRead(k, v) ==
    /\ userActs < MaxUser
    /\ k \in 1..Len(items)
    /\ items' = markAsRead(items, items[k].id, v)
    /\ dirty' = dirty \cup {"items"}
    /\ userActs' = userActs + 1
    /\ UNCHANGED <<feeds, isLoading, error, addFeedAbortRef, ops, pending,
                   refreshes, nextId, now, refreshProgress, refreshAlls,
                   loadVars, translationCache, updaters, resolverVars>>

ToggleStar(k) ==
    /\ userActs < MaxUser
    /\ k \in 1..Len(items)
    /\ items' = toggleStar(items, items[k].id)
    /\ dirty' = dirty \cup {"items"}
    /\ userActs' = userActs + 1
    /\ UNCHANGED <<feeds, isLoading, error, addFeedAbortRef, ops, pending,
                   refreshes, nextId, now, refreshProgress, refreshAlls,
                   loadVars, translationCache, updaters, resolverVars>>

(* The clock advances *)
Tick ==
    /\ now < MaxNow
    /\ now' = now + 1
    /\ UNCHANGED <<feeds, items, isLoading, error, addFeedAbortRef, ops, pending,
                   refreshes, nextId, userActs, refreshProgress, refreshAlls,
                   storeVars, resolverVars>>

(* markAllAsRead (lines 458-465): NoFeed stands for an omitted feedId *)
NoFeed == 0 - 1

FeedIds(fs) == {fs[k].id : k \in 1..Len(fs)}

markAllAsRead(prev, feedId) ==
    [k \in 1..Len(prev) |->
        IF feedId = NoFeed \/ prev[k].feedId = feedId
        THEN [prev[k] EXCEPT !.isRead = TRUE] ELSE prev[k]]

MarkAllAsRead(feedId) ==
    /\ userActs < MaxUser
    /\ items' = markAllAsRead(items, feedId)
    /\ dirty' = dirty \cup {"items"}
    /\ userActs' = userActs + 1
    /\ UNCHANGED <<feeds, isLoading, error, addFeedAbortRef, ops, pending,
                   refreshes, nextId, now, refreshProgress, refreshAlls,
                   loadVars, translationCache, updaters, resolverVars>>

----------------------------------------------------------------------------
(* Persistence (useRSS.ts lines 35-94, lib/storage.ts).  storage holds the *)
(* two localStorage keys as the lists that JSON.parse gives back: every    *)
(* field of a Feed or an Entry of this model is a string, a number or a    *)
(* boolean, which JSON.stringify writes and JSON.parse reads back as they  *)
(* are.                                                                    *)

EmptyStore == [feeds |-> << >>, items |-> << >>, translations |-> << >>]

(* A collection saved by an earlier session *)
StoredFeed == [id |-> 0, title |-> "B", url |-> UrlB, lastUpdated |-> 0]
StoredItem ==
    [id |-> <<0, "g3", 0>>, feedId |-> 0, title |-> "t4", link |-> "L1",
     content |-> "c4", isRead |-> TRUE, isStarred |-> TRUE]
OneFeedStore ==
    [feeds |-> <<StoredFeed>>, items |-> <<StoredItem>>,
     translations |-> << [id |-> StoredItem.id, translatedAt |-> 0] >>]

(* The same with a record of each list that lacks required fields *)
DamagedStore ==
    [feeds |-> <<[id |-> 9, title |-> "X"], StoredFeed>>,
     items |-> <<StoredItem, [id |-> <<9, "g1", 0>>, feedId |-> 9]>>,
     translations |-> << >>]

StoredStates == {EmptyStore, OneFeedStore, DamagedStore}

(* A collection of two feeds, the host of the second one being down now;   *)
(* no entry is read or starred                                             *)
DownFeed == [id |-> 50, title |-> "D", url |-> UrlDown, lastUpdated |-> 0]
DownItem ==
    [id |-> <<50, "g9", 0>>, feedId |-> 50, title |-> "t9", link |-> "L9",
     content |-> "c9", isRead |-> FALSE, isStarred |-> FALSE]
MixedStore ==
    [feeds |-> <<StoredFeed, DownFeed>>,
     items |-> <<[StoredItem EXCEPT !.isRead = FALSE, !.isStarred = FALSE], DownItem>>,
     translations |-> << >>]

(* A Feed list longer than a chunk of refreshAllFeeds, saved by an earlier *)
(* session: a.example first, b.example last, hosts that are down between   *)
ManyFeeds == CONCURRENT_REQUESTS + ExtraFeeds

ManyFeed(k) ==
    [id |-> 100 + k,
     title |-> "F",
     url |-> IF k = 1 THEN UrlA
             ELSE IF k = ManyFeeds THEN UrlB
             ELSE [pad |-> FALSE, body |-> "http://down.example/feed" \o ToString(k)],
     lastUpdated |-> 0]

ManyFeedsStore ==
    [feeds |-> [k \in 1..ManyFeeds |-> ManyFeed(k)], items |-> << >>, translations |-> << >>]

(* The typeof tests of lines 22-30 and 33-44: a field that is present    *)
(* has its type in this model                                            *)
isValidFeed(feed) == {"id", "title", "url"} \subseteq DOMAIN feed

isValidItem(item) ==
    {"id", "feedId", "title", "link", "isRead", "isStarred"} \subseteq DOMAIN item

loadFeeds(st) == SelectSeq(st.feeds, isValidFeed)
loadItems(st) == SelectSeq(st.items, isValidItem)

(* storage.ts lines 12-19: setItem throws QuotaExceededError when the     *)
(* store has no room; the catch logs and the key keeps what it held       *)
saveFeeds(st, fs, room) == IF room THEN [st EXCEPT !.feeds = fs] ELSE st

(* storage.ts lines 76-83, with the same catch *)
saveItems(st, its, room) == IF room THEN [st EXCEPT !.items = its] ELSE st

(* JSON.parse of the saved translations (storage.ts lines 173-187) *)
loadTranslations(st) == st.translations

(* storage.ts lines 189-198: a cache of at most keepCount translations is  *)
(* returned as it is; of a longer one the keepCount newest are kept, in    *)
(* the order of the sort of line 195, which is stable: place(k) is the     *)
(* place of entry k when the entries are sorted by translatedAt, newest   *)
(* first                                                                   *)
trimOldTranslations(cache, keepCount) ==
    LET place(k)  == 1 + Cardinality({j \in 1..Len(cache) :
                            \/ cache[j].translatedAt > cache[k].translatedAt
                            \/ cache[j].translatedAt = cache[k].translatedAt /\ j < k})
        sorted    == [q \in 1..Len(cache) |->
                         cache[CHOOSE k \in 1..Len(cache) : place(k) = q]]
    IN  IF Len(cache) <= keepCount THEN cache ELSE SubSeq(sorted, 1, keepCount)

(* storage.ts lines 135-152: the write of line 137 and, when it throws a   *)
(* QuotaExceededError, the second write of line 145, of the trimmed cache. *)
(* room: the first setItem succeeds; retry: it throws a QuotaExceededError *)
(* and the second setItem succeeds, which takes a shorter text.  Otherwise *)
(* the key keeps what it held.                                             *)
saveTranslations(st, cache, room, retry) ==
    IF room THEN [st EXCEPT !.translations = cache]
    ELSE IF retry /\ trimOldTranslations(cache, 50) # cache
    THEN [st EXCEPT !.translations = trimOldTranslations(cache, 50)]
    ELSE st

(* The updater of addTranslation (lines 116-123), run by React when the    *)
(* clock shows t: a key that the cache has keeps its place                 *)
addTranslation(prev, itemId, t) ==
    IF \E k \in 1..Len(prev) : prev[k].id = itemId
    THEN [k \in 1..Len(prev) |->
             IF prev[k].id = itemId THEN [prev[k] EXCEPT !.translatedAt = t] ELSE prev[k]]
    ELSE Append(prev, [id |-> itemId, translatedAt |-> t])

(* The updater of clearTranslation (lines 128-131) *)
clearTranslation(prev, itemId) == SelectSeq(prev, LAMBDA e : e.id # itemId)

(* The three states that are saved; a setter called with a new array or    *)
(* object makes its state differ, by identity, from that of the last render *)
Slices == {"feeds", "items", "translationCache"}

(* What the store can refuse in a render: the write of a state, by a       *)
(* QuotaExceededError, and the second write of saveTranslations            *)
Refusals == Slices \cup {"trimmedTranslations"}

(* No updater is queued *)
NoUpdaters == [feeds |-> << >>, translationCache |-> << >>]

(* React runs the queued updaters of setFeeds in call order; ts are the    *)
(* values that their reads of Date.now() return                            *)
RECURSIVE RunFeedUpdaters(_, _, _)
RunFeedUpdaters(prev, queue, ts) ==
    IF queue = << >> THEN prev
    ELSE RunFeedUpdaters(TouchFeed(prev, Head(queue), Head(ts)), Tail(queue), Tail(ts))

(* An updater whose read of the clock is still to come *)
NotRead == 0 - 1

(* The queued updaters of addTranslation that read the clock when the      *)
(* render runs them                                                        *)
Additions(queue) == SelectSeq(queue, LAMBDA u : u.op = "add" /\ u.at = NotRead)

(* React runs the queued updaters of setTranslationCache in call order; ts *)
(* are the values that the reads of Date.now() of line 121 return in the   *)
(* render, an updater that React ran when it was queued keeping its own    *)
RECURSIVE RunTranslationUpdaters(_, _, _)
RunTranslationUpdaters(prev, queue, ts) ==
    IF queue = << >> THEN prev
    ELSE IF Head(queue).op = "clear"
    THEN RunTranslationUpdaters(clearTranslation(prev, Head(queue).itemId),
                                Tail(queue), ts)
    ELSE IF Head(queue).at = NotRead
    THEN RunTranslationUpdaters(addTranslation(prev, Head(queue).itemId, Head(ts)),
                                Tail(queue), Tail(ts))
    ELSE RunTranslationUpdaters(addTranslation(prev, Head(queue).itemId, Head(queue).at),
                                Tail(queue), ts)

(* The ids of a list of entries, and the keys of a translation cache *)
ItemIds(list) == {list[k].id : k \in 1..Len(list)}

(* The state that a render shows, that the callbacks of the render close   *)
(* over and that its save effects write                                    *)
Rendering == [feeds |-> feeds, items |-> items, translationCache |-> translationCache]

FirstRender == [feeds |-> << >>, items |-> << >>, translationCache |-> << >>]

(* Mutant: the save effects run without the guard *)
SaveEffect_Unguarded(st, changed, complete, saved) ==
    IF changed THEN saved ELSE st

(* One save effect (lines 76-84, 86-94, 105-112): it runs when its         *)
(* dependency is not identical with that of the last render, every         *)
(* dependency counting as changed at a mount, and saves unless the load is *)
(* incomplete                                                              *)
SaveEffect(st, changed, complete, saved) ==
    IF changed /\ complete THEN saved ELSE st

(* The three save effects of a render that shows r; changed are the states *)
(* set since the last render, full the writes that the store refuses       *)
RunSaveEffects(st, changed, r, complete, full) ==
    LET s1 == SaveEffect(st, "feeds" \in changed, complete,
                         saveFeeds(st, r.feeds, "feeds" \notin full))
        s2 == SaveEffect(s1, "items" \in changed, complete,
                         saveItems(s1, r.items, "items" \notin full))
    IN  SaveEffect(s2, "translationCache" \in changed, complete,
                   saveTranslations(s2, r.translationCache,
                                    "translationCache" \notin full,
                                    "trimmedTranslations" \notin full))

(* The effects of the mount: the load effect (lines 35-72), whose setters  *)
(* are called with the lists read from the store, then the save effects    *)
(* over the state of the first render.  Under StrictMode (strict) React    *)
(* runs the effects of the mount a second time at once: the load effect    *)
(* returns at line 38, the save effects run again.                         *)
Mount(strict) ==
    /\ ~isDataLoadedRef
    /\ isDataLoadedRef' = TRUE
    /\ feeds' = loadFeeds(storage)
    /\ items' = loadItems(storage)
    /\ translationCache' = loadTranslations(storage)
    /\ rendered' = Rendering
    /\ dirty' = Slices
    /\ effects' = {}
    /\ \E full \in SUBSET Refusals :
          storage' =
             LET once == RunSaveEffects(storage, Slices, Rendering,
                                        isInitialLoadCompleteRef, full)
             IN  IF strict
                 THEN RunSaveEffects(once, Slices, Rendering,
                                     isInitialLoadCompleteRef, full)
                 ELSE once
    /\ UNCHANGED <<isLoading, error, addFeedAbortRef, ops, pending, refreshes,
                   nextId, now, userActs, refreshProgress, refreshAlls,
                   isInitialLoadCompleteRef, updaters, resolverVars>>

(* The timer of lines 65-68 *)
LoadComplete ==
    /\ isDataLoadedRef
    /\ ~isInitialLoadCompleteRef
    /\ isInitialLoadCompleteRef' = TRUE
    /\ UNCHANGED <<feeds, items, isLoading, error, addFeedAbortRef, ops, pending,
                   refreshes, nextId, now, userActs, refreshProgress, refreshAlls,
                   storage, rendered, dirty, updaters, effects, isDataLoadedRef,
                   translationCache, resolverVars>>

(* A render after the setters were called: the hook body runs.  React     *)
(* runs the queued updaters state by state in the order of the useState    *)
(* calls (lines 21-29), those of setFeeds before those of                  *)
(* setTranslationCache, each reading the clock as it runs.  The effects    *)
(* whose dependency has changed are left to run after the commit; React    *)
(* runs the effects of a render before it renders again.                   *)
Render ==
    /\ dirty # {}
    /\ effects = {}
    /\ \E ts \in Stamps(now, Len(updaters.feeds)
                                + Len(Additions(updaters.translationCache))) :
          /\ feeds' = RunFeedUpdaters(feeds, updaters.feeds, ts)
          /\ translationCache' =
                RunTranslationUpdaters(translationCache, updaters.translationCache,
                                       SubSeq(ts, Len(updaters.feeds) + 1, Len(ts)))
          /\ now' = LastStamp(now, ts)
    /\ updaters' = NoUpdaters
    /\ UNCHANGED <<items, isLoading, error, addFeedAbortRef, ops, pending,
                   refreshes, nextId, userActs, refreshProgress, refreshAlls,
                   storage, isDataLoadedRef, isInitialLoadCompleteRef, resolverVars>>
    /\ rendered' = Rendering'
    /\ effects' = dirty
    /\ dirty' = {}

(* The effects of the last render run, in a task of their own (lines       *)
(* 76-112): the save effects write what the render showed, and read        *)
(* isInitialLoadCompleteRef as it is now; full are the writes that the     *)
(* store refuses.                                                          *)
SaveEffects(full) ==
    /\ effects # {}
    /\ storage' = RunSaveEffects(storage, effects, rendered,
                                 isInitialLoadCompleteRef, full)
    /\ effects' = {}
    /\ UNCHANGED <<feeds, items, isLoading, error, addFeedAbortRef, ops, pending,
                   refreshes, nextId, now, userActs, refreshProgress, refreshAlls,
                   rendered, dirty, updaters, isDataLoadedRef,
                   isInitialLoadCompleteRef, translationCache, resolverVars>>

(* The effects of a render that find room in the store, and those that    *)
(* find the store as it may be                                             *)
EffectsWithRoom == SaveEffects({})

Effects == \E full \in SUBSET Refusals : SaveEffects(full)

(* The article viewer stores the translation of the Entry itemId, or drops *)
(* it: setTranslationCache is called with an updater, whatever the id.     *)
(* React queues the updater for the render; when the component has no      *)
(* update pending it may run the updater at once and keep the result for   *)
(* the render, and then Date.now() is read in the call (at).  No update of *)
(* the saved states is pending when dirty is empty; the setters that this  *)
(* model does not follow (isLoading, error, the view) decide the rest.     *)
AddTranslation(itemId) ==
    /\ userActs < MaxUser
    /\ userActs' = userActs + 1
    /\ \E at \in {NotRead} \cup (IF dirty = {} THEN now..MaxNow ELSE {}) :
          /\ updaters' = [updaters EXCEPT !.translationCache =
                             Append(@, [op |-> "add", itemId |-> itemId, at |-> at])]
          /\ now' = IF at = NotRead THEN now ELSE at
    /\ dirty' = dirty \cup {"translationCache"}
    /\ UNCHANGED <<feeds, items, isLoading, error, addFeedAbortRef, ops, pending,
                   refreshes, nextId, refreshProgress, refreshAlls,
                   loadVars, translationCache, resolverVars>>

ClearTranslation(itemId) ==
    /\ userActs < MaxUser
    /\ userActs' = userActs + 1
    /\ updaters' = [updaters EXCEPT !.translationCache =
                                      Append(@, [op |-> "clear", itemId |-> itemId, at |-> NotRead])]
    /\ dirty' = dirty \cup {"translationCache"}
    /\ UNCHANGED <<feeds, items, isLoading, error, addFeedAbortRef, ops, pending,
                   refreshes, nextId, now, refreshProgress, refreshAlls,
                   loadVars, translationCache, resolverVars>>

----------------------------------------------------------------------------
(* Inputs and specifications                                               *)

(* The lists of n URL strings *)
BatchInputs(n) == [1..n -> UrlStrings]

(* What is left of the behaviour's budget of URL strings *)
Budget == MaxSubmitted - Submitted(ops)

(* A batch with more candidates than the pool has workers *)
PoolBatch == [k \in 1..(MAX_CONCURRENT + PoolExtra) |-> UrlDown]

(* The hook's state after construction *)
InitHook ==
    /\ feeds = << >>
    /\ items = << >>
    /\ isLoading = FALSE
    /\ error = "null"
    /\ addFeedAbortRef = NoController
    /\ ops = << >>
    /\ pending = {}
    /\ refreshes = << >>
    /\ nextId = 1
    /\ now = 0
    /\ userActs = 0
    /\ refreshProgress = NoProgress
    /\ refreshAlls = << >>
    /\ calls = << >>
    /\ dirty = {}
    /\ updaters = NoUpdaters
    /\ effects = {}

(* A first session: nothing is stored, and the load has completed *)
Init ==
    /\ InitHook
    /\ storage = EmptyStore
    /\ rendered = FirstRender
    /\ translationCache = << >>
    /\ isDataLoadedRef = TRUE
    /\ isInitialLoadCompleteRef = TRUE

(* The hook before its mount effects, over whatever an earlier session     *)
(* has stored                                                              *)
InitStored ==
    /\ InitHook
    /\ storage \in StoredStates
    /\ rendered = FirstRender
    /\ translationCache = << >>
    /\ isDataLoadedRef = FALSE
    /\ isInitialLoadCompleteRef = FALSE

Candidates == {<<o, k>> : o \in 1..MaxSubmitted, k \in 1..(MAX_CONCURRENT + PoolExtra)}

(* Ingestion: add operations, their cancellation and the network.  A      *)
(* resolver call abandoned by its race stays outstanding here; nothing but *)
(* pending depends on when it settles, and SpecAbandoned lets it settle.   *)
(* React renders at any time between the steps.                            *)
NextIngest ==
    \/ Render
    \/ EffectsWithRoom
    \/ \E n \in 1..Budget : \E urls \in BatchInputs(n) : StartBatch(urls)
    \/ \E url \in UrlStrings : StartAddFeed(url)
    \/ CancelAddFeed
    \/ \E c \in Candidates : ResolverSettles(c[1], c[2])
    \/ \E c \in Candidates : ItemTimeout(c[1], c[2])

SpecIngest == Init /\ [][NextIngest]_vars

(* The pool: one batch wider than the pool against a host that is slower   *)
(* than the item timer                                                     *)
StartPoolBatch ==
    /\ ops = << >>
    /\ LET pre == Prefilter([results |-> EmptyResults, validUrls |-> << >>],
                            PoolBatch, FeedUrls(rendered.feeds))
           op1 == StartWorkers(NewOp("batch", PoolBatch, FeedUrls(rendered.feeds), pre.validUrls, pre.results),
                               NumWorkers(Len(pre.validUrls)))
       IN  /\ ops' = <<op1>>
           /\ addFeedAbortRef' = 1
           /\ isLoading' = TRUE
           /\ pending' = {<<1, k>> : k \in Waiting(op1)}
    /\ UNCHANGED <<feeds, items, error, refreshes, nextId, now, userActs, refreshProgress, refreshAlls,
                   storeVars, resolverVars>>

NextPool ==
    \/ StartPoolBatch
    \/ CancelAddFeed
    \/ \E c \in Candidates : ItemTimeout(c[1], c[2])

SpecPool == Init /\ [][NextPool]_vars

(* The same batch left to itself: the resolver calls that their races      *)
(* abandoned settle later, in any order                                    *)
NextAbandoned ==
    \/ StartPoolBatch
    \/ \E c \in Candidates : ItemTimeout(c[1], c[2])
    \/ \E c \in pending : LateSettle(c[1], c[2])

SpecAbandoned == Init /\ [][NextAbandoned]_vars

(* The collection: feeds added one by one from hosts that serve a feed,    *)
(* the user's flag actions and refreshes                                   *)
ServedUrls == {UrlA, UrlB}

(* URL strings submitted in a behaviour of SpecRefresh, SpecLifecycle and  *)
(* SpecFlags                                                               *)
MaxAdded == 2

NextRefresh ==
    \/ Render
    \/ EffectsWithRoom
    \/ \E url \in ServedUrls : Submitted(ops) < MaxAdded /\ StartAddFeed(url)
    \/ \E f \in 1..Len(rendered.feeds) : StartRefresh(f)
    \/ \E c \in Candidates : ResolverSettles(c[1], c[2])
    \/ \E r \in 1..Len(refreshes) : RefreshSettles(r)
    \/ \E k \in 1..Len(items), v \in BOOLEAN : MarkAsRead(k, v)
    \/ \E k \in 1..Len(items) : ToggleStar(k)

SpecRefresh == Init /\ [][NextRefresh]_vars

(* Batches of n URL strings of hosts that serve a feed *)
ServedBatches(n) == [1..n -> ServedUrls]

(* Growth and removal: feeds are added, one by one and in batches, from    *)
(* hosts that serve a feed, and removed                                    *)
NextRemoval ==
    \/ Render
    \/ EffectsWithRoom
    \/ \E url \in ServedUrls : StartAddFeed(url)
    \/ \E n \in 1..Budget : \E urls \in ServedBatches(n) : StartBatch(urls)
    \/ \E c \in Candidates : ResolverSettles(c[1], c[2])
    \/ \E f \in 1..Len(feeds) : RemoveFeed(f)

SpecRemoval == Init /\ [][NextRemoval]_vars

(* The life of the collection: growth and removal together with refreshes, *)
(* one by one and all at once                                              *)
NextLifecycle ==
    \/ Render
    \/ EffectsWithRoom
    \/ \E url \in ServedUrls : Submitted(ops) < MaxAdded /\ StartAddFeed(url)
    \/ \E f \in 1..Len(feeds) : RemoveFeed(f)
    \/ \E f \in 1..Len(rendered.feeds) : StartRefresh(f)
    \/ StartRefreshAll
    \/ \E c \in Candidates : ResolverSettles(c[1], c[2])
    \/ \E r \in 1..Len(refreshes) : RefreshSettles(r)

SpecLifecycle == Init /\ [][NextLifecycle]_vars

(* The flags: the collection of SpecRefresh, grown by batches as well      *)
NextFlags ==
    \/ Render
    \/ EffectsWithRoom
    \/ \E url \in ServedUrls : Submitted(ops) < MaxAdded /\ StartAddFeed(url)
    \/ \E n \in 1..(MaxAdded - Submitted(ops)) : \E urls \in ServedBatches(n) : StartBatch(urls)
    \/ \E f \in 1..Len(rendered.feeds) : StartRefresh(f)
    \/ \E c \in Candidates : ResolverSettles(c[1], c[2])
    \/ \E r \in 1..Len(refreshes) : RefreshSettles(r)
    \/ \E k \in 1..Len(items), v \in BOOLEAN : MarkAsRead(k, v)
    \/ \E k \in 1..Len(items) : ToggleStar(k)

SpecFlags == Init /\ [][NextFlags]_vars

(* The resolver: one URL is handed to addFeedsBatch or to addFeed, and the *)
(* relays answer the fetches of its parseRSSFeed call                      *)
ResolverInputs == {UrlSiteSlash, UrlSiteSlashes, UrlBSlash, UrlEmpty}

NextResolver ==
    \/ Render
    \/ EffectsWithRoom
    \/ \E url \in ResolverInputs : ops = << >> /\ StartBatch(<<url>>)
    \/ \E url \in ResolverInputs : ops = << >> /\ StartAddFeed(url)
    \/ \E c \in pending : \E i \in FetchesOf(CallOf(c)) :
          \E x \in {"ok", "status", "neterror", "timeout"} : FetchSettles(c, i, x)

SpecResolver == Init /\ [][NextResolver]_vars

(* The callers of the resolver, with a resolver that is any function of    *)
(* its type                                                                *)
CallerInputs == {UrlA, UrlB, UrlEmpty}

NextCallers ==
    \/ Render
    \/ EffectsWithRoom
    \/ \E n \in 1..Budget : \E urls \in [1..n -> CallerInputs] : StartBatch(urls)
    \/ \E url \in CallerInputs : StartAddFeed(url)
    \/ \E c \in Candidates : ResolverReturns(c[1], c[2])

SpecCallers == Init /\ [][NextCallers]_vars

(* A session over a stored Feed list longer than a chunk: it is loaded and *)
(* refreshed as a whole, from the button of the sidebar                    *)
InitManyFeeds ==
    /\ InitHook
    /\ storage = ManyFeedsStore
    /\ rendered = FirstRender
    /\ translationCache = << >>
    /\ isDataLoadedRef = FALSE
    /\ isInitialLoadCompleteRef = FALSE

NextRefreshAll ==
    \/ \E strict \in BOOLEAN : Mount(strict)
    \/ LoadComplete
    \/ Render
    \/ EffectsWithRoom
    \/ /\ ~isLoading          \* the button is disabled while isLoading
       /\ StartRefreshAll
    \/ \E r \in 1..Len(refreshes) : RefreshSettles(r)

SpecRefreshAll == InitManyFeeds /\ [][NextRefreshAll]_vars

(* URL strings submitted, and flag actions taken, in a behaviour of         *)
(* SpecPersist                                                             *)
MaxPersist == 1

(* What the last render showed: the user acts on a feed or an entry that  *)
(* is on the screen                                                        *)
Shown(list, x) == \E j \in 1..Len(list) : list[j].id = x.id

(* Persistence: the mount, then the operations that commit to the Feed     *)
(* list or the Entry list, each followed at some point by a render and the *)
(* save effects, which find the store as it may be.  The hook accepts the  *)
(* operations from the first render on, before the 0 ms timer of the load  *)
(* effect as well.                                                         *)
NextPersist ==
    \/ \E strict \in BOOLEAN : Mount(strict)
    \/ LoadComplete
    \/ Render
    \/ Effects
    \/ /\ isDataLoadedRef
       /\ \/ /\ Submitted(ops) < MaxPersist
             /\ \/ \E url \in ServedUrls : StartAddFeed(url)
                \/ \E url \in ServedUrls : StartBatch(<<url>>)
          \/ \E c \in Candidates : ResolverSettles(c[1], c[2])
          \/ \E r \in 1..Len(refreshes) : RefreshSettles(r)
          \/ \E f \in 1..Len(feeds) :
                /\ Shown(rendered.feeds, feeds[f])
                /\ RemoveFeed(f)
          \/ \E f \in 1..Len(rendered.feeds) : StartRefresh(f)
          \/ /\ userActs < MaxPersist
             /\ \/ \E k \in 1..Len(items) :
                      /\ Shown(rendered.items, items[k])
                      /\ MarkAsRead(k, TRUE) \/ ToggleStar(k)
                \/ \E feedId \in {NoFeed} \cup FeedIds(rendered.feeds) : MarkAllAsRead(feedId)

SpecPersist == InitStored /\ [][NextPersist]_vars

(* React runs a scheduled render and its effects, and the browser fires a  *)
(* due timer                                                               *)
SpecPersistLive ==
    /\ SpecPersist
    /\ WF_vars(Mount(FALSE)) /\ WF_vars(LoadComplete)
    /\ WF_vars(Render) /\ WF_vars(Effects)

(* The feed documents that the resolver of this model returns *)
Documents == {FeedA1, FeedA2, FeedB, FeedDup1, FeedDup2, FeedS1, FeedS2}

(* addTranslation and clearTranslation take any id (lines 115, 127).  The  *)
(* ids that the article viewer can hold: those of the entries of the list  *)
(* and of the last render, and those of entries that are not listed: the   *)
(* entries that were removed or replaced by a refresh are among those that *)
(* earlier sessions stored (stored), that the refreshes merged (refreshed) *)
(* and that the feeds committed in this behaviour can have had, whatever   *)
(* document was parsed and whenever it was converted (committed)           *)
TranslationInputs ==
    LET stored     == UNION {ItemIds(loadItems(st)) :
                                st \in StoredStates \cup {MixedStore, ManyFeedsStore}}
        refreshed  == UNION {ItemIds(convertToRSSItems(refreshes[r].parsed.items,
                                                       refreshes[r].feedId,
                                                       refreshes[r].stamps)) :
                                r \in {q \in 1..Len(refreshes) : refreshes[q].st = "done"}}
        feedIds    == UNION {{ops[o].commits[k] : k \in 1..Len(ops[o].commits)} :
                                o \in 1..Len(ops)}
        idsOf(f, d) == UNION {ItemIds(convertToRSSItems(d.items, f, ts)) :
                                ts \in Stamps(0, Len(d.items))}
        committed  == UNION {idsOf(f, d) : f \in feedIds, d \in Documents}
    IN  ItemIds(items) \cup ItemIds(rendered.items) \cup stored \cup refreshed
           \cup committed

(* A session over a stored collection: the mount, with or without          *)
(* StrictMode, then the user's actions on feeds, entries and translations, *)
(* which the hook accepts from the first render on                         *)
NextSession ==
    \/ \E strict \in BOOLEAN : Mount(strict)
    \/ LoadComplete
    \/ Render
    \/ Effects
    \/ Tick
    \/ /\ isDataLoadedRef
       /\ \/ \E r \in 1..Len(refreshes) : RefreshSettles(r)
          \/ \E f \in 1..Len(feeds) : RemoveFeed(f)
          \/ \E f \in 1..Len(rendered.feeds) : StartRefresh(f)
          \/ \E k \in 1..Len(items) : MarkAsRead(k, TRUE)
          \/ \E itemId \in TranslationInputs :
                AddTranslation(itemId) \/ ClearTranslation(itemId)

SpecSession == InitStored /\ [][NextSession]_vars

(* Refreshes of a stored collection, one host being down.  The user       *)
(* changes the flags of an entry while a refresh of its feed is in flight. *)
InitMixed ==
    /\ InitHook
    /\ storage = MixedStore
    /\ rendered = FirstRender
    /\ translationCache = << >>
    /\ isDataLoadedRef = FALSE
    /\ isInitialLoadCompleteRef = FALSE

InFlightFor(feedId) ==
    \E r \in 1..Len(refreshes) :
        refreshes[r].st = "waiting" /\ refreshes[r].feedId = feedId

NextRefetch ==
    \/ \E strict \in BOOLEAN : Mount(strict)
    \/ LoadComplete
    \/ Render
    \/ Effects
    \/ Tick
    \/ /\ isDataLoadedRef
       /\ \/ \E f \in 1..Len(rendered.feeds) : StartRefresh(f)
          \/ \E r \in 1..Len(refreshes) : RefreshSettles(r)
          \/ \E k \in 1..Len(items) :
                /\ InFlightFor(items[k].feedId)
                /\ ToggleStar(k) \/ \E v \in BOOLEAN : MarkAsRead(k, v)

SpecRefetch == InitMixed /\ [][NextRefetch]_vars

(* A collection with a feed whose items share a guid *)
NextDuplicates ==
    \/ Render
    \/ EffectsWithRoom
    \/ /\ Submitted(ops) <= MaxPersist
       /\ \E url \in {UrlA, UrlDup} : StartAddFeed(url) \/ StartBatch(<<url>>)
    \/ \E k \in 1..Len(items) :
          ToggleStar(k) \/ \E v \in BOOLEAN : MarkAsRead(k, v)
    \/ \E feedId \in {NoFeed} \cup FeedIds(feeds) : MarkAllAsRead(feedId)
    \/ \E c \in pending : ResolverSettles(c[1], c[2])

SpecDuplicates == Init /\ [][NextDuplicates]_vars

(* URL strings submitted in a behaviour of SpecLive *)
MaxLive == 2

LiveUrls == {UrlA, UrlB, UrlDown}

LiveBatches == {<<u>> : u \in LiveUrls} \cup {<<u, UrlDown>> : u \in LiveUrls}

(* The race of a waiting candidate ends: the resolver settles or the 30 s  *)
(* timer of lines 221 / 326 fires                                          *)
RaceEnds == \E c \in pending : ResolverSettles(c[1], c[2]) \/ ItemTimeout(c[1], c[2])

(* The race of a refreshFeed call ends the same way (lines 384-389) *)
RefreshRaceEnds == \E r \in 1..Len(refreshes) : RefreshSettles(r)

(* A session that starts with nothing stored and the load completed, or    *)
(* with more stored feeds than one chunk of refreshAllFeeds                *)
InitLive == Init \/ InitManyFeeds

NextLive ==
    \/ \E strict \in BOOLEAN : Mount(strict)
    \/ LoadComplete
    \/ Render
    \/ EffectsWithRoom
    \/ /\ isInitialLoadCompleteRef
       /\ \/ /\ ~isLoading          \* the button is disabled while isLoading
             /\ StartRefreshAll
          \/ /\ Len(feeds) < CONCURRENT_REQUESTS
             /\ \/ \E urls \in LiveBatches :
                      /\ Submitted(ops) + Len(urls) <= MaxLive
                      /\ StartBatch(urls)
                \/ \E url \in LiveUrls :
                      /\ Submitted(ops) < MaxLive
                      /\ StartAddFeed(url)
          \/ CancelAddFeed
    \/ RaceEnds
    \/ RefreshRaceEnds

SpecLiveSafe == InitLive /\ [][NextLive]_vars

(* React runs the scheduled effects and the browser fires the timers that  *)
(* are due: the 0 ms timer of the load and the 30 s timer of every race.   *)
(* One fairness condition for all races is enough, a behaviour having a    *)
(* bounded number of them.                                                 *)
SpecLive ==
    /\ SpecLiveSafe
    /\ WF_vars(Mount(FALSE)) /\ WF_vars(LoadComplete)
    /\ WF_vars(Render) /\ WF_vars(EffectsWithRoom)
    /\ WF_vars(RaceEnds)
    /\ WF_vars(RefreshRaceEnds)

(* Every action of the program *)
Next ==
    \/ NextIngest
    \/ \E c \in Candidates : LateSettle(c[1], c[2])
    \/ \E f \in 1..Len(rendered.feeds) : StartRefresh(f)
    \/ StartRefreshAll
    \/ \E r \in 1..Len(refreshes) : RefreshSettles(r)
    \/ \E f \in 1..Len(feeds) : RemoveFeed(f)
    \/ \E k \in 1..Len(items), v \in BOOLEAN : MarkAsRead(k, v)
    \/ \E k \in 1..Len(items) : ToggleStar(k)
    \/ \E feedId \in {NoFeed} \cup FeedIds(feeds) : MarkAllAsRead(feedId)
    \/ \E itemId \in TranslationInputs :
          AddTranslation(itemId) \/ ClearTranslation(itemId)
    \/ Render
    \/ Effects
    \/ Tick

Spec == Init /\ [][Next]_vars

----------------------------------------------------------------------------
(* Properties                                                              *)

BatchOps == {o \in 1..Len(ops) : ops[o].kind = "batch"}
AddOps == {o \in 1..Len(ops) : ops[o].kind = "add"}

Count(seq, P(_)) == Cardinality({k \in 1..Len(seq) : P(seq[k])})

(* Resolver calls of operation o that have started and have not settled *)
Outstanding(o) == Cardinality({c \in pending : c[1] = o})

EntryIdsOf(its, feedId) == {its[k].id : k \in {j \in 1..Len(its) : its[j].feedId = feedId}}
SeqToSet(seq) == {seq[k] : k \in 1..Len(seq)}

(* C1: during a batch at most 10 resolver calls are started and not yet    *)
(* settled.                                                                *)
C1_PoolBound == \A o \in BatchOps : Outstanding(o) <= MAX_CONCURRENT

(* C2: once a batch's token is aborted, the batch commits nothing more and *)
(* every Feed it had committed, with its Entries, stays in the state: in   *)
(* the aborting step and in every later step.                              *)
C2_CancelKeepsCommits ==
    [][\A o \in BatchOps :
          ops'[o].aborted =>
             /\ ops'[o].commits = ops[o].commits
             /\ \A id \in SeqToSet(ops[o].commits) :
                   /\ id \in FeedIds(feeds')
                   /\ EntryIdsOf(items', id) = EntryIdsOf(items, id)
                   /\ EntryIdsOf(items', id) # {}]_vars

(* C2 witness: a batch aborted after one commit, with a candidate abandoned *)
C2_Witness ==
    \E o \in BatchOps :
        /\ ops[o].aborted
        /\ Len(ops[o].commits) = 1
        /\ \E k \in 1..Len(ops[o].st) : ops[o].st[k] = "cancelled"
        /\ SeqToSet(ops[o].commits) \subseteq FeedIds(feeds)

(* C3: a batch whose token was aborted never delivers its results object.  *)
C3_ResultNeverDelivered ==
    \A o \in BatchOps : ops[o].aborted => ops[o].ret # "results"

(* C4: a step in which candidates are abandoned on cancellation adds no    *)
(* failure and no error string to the operation's results; a cancelled     *)
(* addFeed returns false and the error state carries no cancel message.    *)
C4_CancelIsNoFailure ==
    [][\A o \in 1..Len(ops) :
          (\E k \in 1..Len(ops[o].st) :
               ops[o].st[k] = "waiting" /\ ops'[o].st[k] = "cancelled")
          => /\ ops'[o].results = ops[o].results
             /\ ops[o].kind = "add" => (ops'[o].ret = "false" /\ error' # "cancelled")]_vars

C4_Witness ==
    /\ \E o \in BatchOps : \E k \in 1..Len(ops[o].st) :
          ops[o].st[k] = "cancelled" /\ ops[o].results.failed > 0
    /\ \E o \in AddOps : ops[o].st[1] = "cancelled"

(* The refresh of r commits in this step *)
RefreshCommits(r) == refreshes[r].st = "waiting" /\ refreshes'[r].st = "done"

EntriesOf(its, feedId) == {its[k] : k \in {j \in 1..Len(its) : its[j].feedId = feedId}}

(* What the refresh of feed F parsed, as Entries *)
Parsed(r) == SeqToSet(convertToRSSItems(refreshes'[r].parsed.items, refreshes[r].feedId,
                                       refreshes'[r].stamps))

(* C5: when the refresh of F commits and F had an entry that is read and   *)
(* starred whose link is parsed again, F's entry with that link has the    *)
(* newly parsed title and content and is read and starred.                 *)
C5_FlagsPreserved ==
    [][\A r \in 1..Len(refreshes) : RefreshCommits(r) =>
          \A old \in EntriesOf(items, refreshes[r].feedId) :
          \A new \in Parsed(r) :
              (old.isRead /\ old.isStarred /\ new.link = old.link) =>
                  \E e \in EntriesOf(items', refreshes[r].feedId) :
                      /\ e.link = new.link
                      /\ e.title = new.title /\ e.content = new.content
                      /\ e.isRead /\ e.isStarred]_vars

Key(e) == <<e.link, e.content, e.isRead, e.isStarred>>
Keys(es) == {Key(e) : e \in es}
Upstream(e) == <<e.link, e.title, e.content>>

(* C6: when the refresh of F commits with the entries that are stored for  *)
(* F, the entries of F are the same set by (link, content, isRead,         *)
(* isStarred) as before.                                                   *)
C6_RefreshIdempotent ==
    [][\A r \in 1..Len(refreshes) :
          (/\ RefreshCommits(r)
           /\ {Upstream(e) : e \in Parsed(r)}
                 = {Upstream(e) : e \in EntriesOf(items, refreshes[r].feedId)})
          => Keys(EntriesOf(items', refreshes[r].feedId))
                = Keys(EntriesOf(items, refreshes[r].feedId))]_vars

(* C7: for a batch that is not interrupted the callback has received       *)
(* (1, N), (2, N), ... one per completed item, N the number of candidates, *)
(* and (N, N) is the last when the batch has returned.                     *)
C7_ProgressCounts ==
    \A o \in BatchOps : ~ops[o].aborted =>
        /\ Len(ops[o].progress) = ops[o].completed
        /\ \A j \in 1..Len(ops[o].progress) :
              ops[o].progress[j] = <<j, Len(ops[o].newUrls)>>
        /\ ops[o].ret = "results" => ops[o].completed = Len(ops[o].newUrls)

C7_Witness ==
    \E o \in BatchOps :
        /\ ~ops[o].aborted /\ ops[o].ret = "results"
        /\ Len(ops[o].newUrls) = 3
        /\ Len(ops[o].progress) = 3

BadMessages == {"badformat", "badprotocol"}

(* C8: a URL that does not parse or whose scheme is not http(s) is never   *)
(* handed to the resolver; a batch counts it as failed with a message of   *)
(* its own, and addFeed fails with a message without committing.           *)
C8_InvalidNeverFetched ==
    /\ \A o \in 1..Len(ops) : \A k \in 1..Len(ops[o].st) :
          ops[o].st[k] # "unclaimed" => ValidScheme(ops[o].newUrls[k])
    /\ \A c \in pending : ValidScheme(ops[c[1]].newUrls[c[2]])
    /\ \A o \in BatchOps :
          /\ \A j \in 1..Len(ops[o].urls) : ~ValidScheme(ops[o].urls[j]) =>
                \E e \in SeqToSet(ops[o].results.errors) :
                    e[1] = ops[o].urls[j] /\ e[2] \in BadMessages
          /\ Count(ops[o].results.errors, LAMBDA e : e[2] \in BadMessages)
                = Count(ops[o].urls, LAMBDA u : ~ValidScheme(u))
          /\ ops[o].results.failed >= Count(ops[o].urls, LAMBDA u : ~ValidScheme(u))
    /\ \A o \in AddOps : ~ValidScheme(ops[o].urls[1]) =>
          /\ ops[o].ret = "threw" /\ ops[o].thrown \in BadMessages
          /\ ops[o].commits = << >>

C8_Witness ==
    /\ \E o \in BatchOps :
          /\ \E j \in 1..Len(ops[o].urls) : URLProtocol(ops[o].urls[j]) = "ftp:"
          /\ \E j \in 1..Len(ops[o].urls) : URLProtocol(ops[o].urls[j]) = "invalid"
          /\ ops[o].results.failed = 2
    /\ \E o \in AddOps : ops[o].ret = "threw"

(* C9: every URL of a batch that is the source URL of an existing Feed is  *)
(* counted as skipped and is no candidate.                                 *)
C9_ExistingSkipped ==
    \A o \in BatchOps :
        LET dup == Count(ops[o].urls, LAMBDA u : u \in ops[o].existingUrls)
        IN  /\ ops[o].results.skipped >= dup
            /\ Len(ops[o].newUrls) <= Len(ops[o].urls) - dup

(* C10: when an uninterrupted batch has returned, success is the number of *)
(* Feeds it committed, skipped the number of pre-filtered duplicates,      *)
(* failed the number of invalid URLs plus failed candidates, errors has    *)
(* one string per failure and the three counts add up to the input.        *)
C10_Accounting ==
    \A o \in BatchOps : (ops[o].ret = "results" /\ ~ops[o].aborted) =>
        LET r == ops[o].results
            invalid == Count(ops[o].urls, LAMBDA u : ~ValidScheme(u))
            dups == Count(ops[o].urls, LAMBDA u :
                        ValidScheme(u) /\ Trim(u) \in ops[o].existingUrls)
            failedCands == Count(ops[o].st, LAMBDA x : x = "failed")
        IN  /\ r.success = Len(ops[o].commits)
            /\ r.success = Cardinality(SeqToSet(ops[o].commits) \cap FeedIds(feeds))
            /\ r.skipped = dups
            /\ r.failed = invalid + failedCands
            /\ Len(r.errors) = r.failed
            /\ r.success + r.failed + r.skipped = Len(ops[o].urls)

C10_Witness ==
    \E o \in BatchOps :
        /\ ops[o].ret = "results" /\ ~ops[o].aborted
        /\ ops[o].results.success = 1
        /\ ops[o].results.failed = 2
        /\ \E k \in 1..Len(ops[o].st) : ops[o].st[k] = "failed"

(* C11: every Entry's feedId is the id of a Feed of the Feed list.         *)
C11_ReferentialIntegrity ==
    \A k \in 1..Len(items) : items[k].feedId \in FeedIds(feeds)

(* C12: no two Feeds of the Feed list have the same source URL.             *)
C12_NoDuplicateUrl ==
    \A f, g \in 1..Len(feeds) : feeds[f].url = feeds[g].url => f = g

(* C13: a step of an add operation leaves every stored Entry, with its     *)
(* flags, in the Entry list; a refresh of feed F that ends leaves the      *)
(* Entries of every other feed as they were, flags and order included.     *)
C13_FlagsUntouched ==
    [][/\ ops' # ops => \A k \in 1..Len(items) : items[k] \in SeqToSet(items')
       /\ \A r \in 1..Len(refreshes) :
             (refreshes[r].st = "waiting" /\ refreshes'[r].st # "waiting")
             => NotOfFeed(items', refreshes[r].feedId)
                   = NotOfFeed(items, refreshes[r].feedId)]_vars

(* C13 witness: an Entry that is read and starred, a Feed committed by a   *)
(* batch after that Entry's feed, and a finished refresh of another feed   *)
C13_Witness ==
    \E k \in 1..Len(items) :
        /\ items[k].isRead /\ items[k].isStarred
        /\ \E o \in BatchOps : \E c \in 1..Len(ops[o].commits) :
              ops[o].commits[c] > items[k].feedId
        /\ \E r \in 1..Len(refreshes) :
              refreshes[r].st = "done" /\ refreshes[r].feedId # items[k].feedId

(* C14: a step that removes a Feed or an Entry removes one Feed F and      *)
(* exactly the Entries of F; the other Feeds and the Entries of the other  *)
(* feeds stay as they were, in their order.                                *)
C14_RemoveFrame ==
    [][(Len(feeds') < Len(feeds) \/ Len(items') < Len(items)) =>
          \E F \in FeedIds(feeds) \ FeedIds(feeds') :
              /\ \A k \in 1..Len(items') : items'[k].feedId # F
              /\ items' = SelectSeq(items, LAMBDA i : i.feedId # F)
              /\ feeds' = SelectSeq(feeds, LAMBDA f : f.id # F)]_vars

(* C14 witness: a Feed has been removed and another Feed and its Entries   *)
(* are in the state                                                        *)
C14_Witness ==
    /\ nextId - 1 > Len(feeds)
    /\ feeds # << >> /\ items # << >>
    /\ \A k \in 1..Len(items) : items[k].feedId \in FeedIds(feeds)
    /\ \A f \in 1..Len(feeds) : EntryIdsOf(items, feeds[f].id) # {}

(* Add operations that have not returned and whose token is not aborted *)
InFlight == {o \in 1..Len(ops) : ops[o].ret = "pending" /\ ~ops[o].aborted}

(* C15: at most one add operation is in flight with a token that is not    *)
(* aborted.                                                                *)
C15_OneLiveToken == Cardinality(InFlight) <= 1

(* C16: a call of cancelAddFeed leaves no add operation in flight with a   *)
(* token that is not aborted.                                              *)
C16_CancelObserved ==
    [][CancelAddFeed => \A o \in 1..Len(ops) :
          ops[o].ret = "pending" => ops'[o].aborted]_vars

ItemMessages == {"timeout", "notfound", "noarticles"}

(* C17: in a batch that is not cancelled no candidate is abandoned: a      *)
(* candidate is unclaimed only while every worker is busy, a claimed one   *)
(* waits or has ended as success or failed by the outcome of its own URL,  *)
(* failed counts one error string per failed candidate, and the batch      *)
(* returns only when every candidate has ended.                            *)
C17_SiblingsUnaffected ==
    \A o \in BatchOps : ~ops[o].aborted =>
        LET op == ops[o]
        IN  /\ \A k \in 1..Len(op.st) :
                  /\ op.st[k] \in {"unclaimed", "waiting", "success", "failed"}
                  /\ op.st[k] = "unclaimed" =>
                        Cardinality(Waiting(op)) = NumWorkers(Len(op.newUrls))
                  /\ op.st[k] = "success" =>
                        \E out \in parseRSSFeed(op.newUrls[k]) : out.kind = "ok"
                  /\ op.st[k] = "failed" =>
                        \E out \in parseRSSFeed(op.newUrls[k]) : out.kind # "ok"
            /\ Count(op.results.errors, LAMBDA e : e[2] \in ItemMessages)
                  = Count(op.st, LAMBDA x : x = "failed")
            /\ op.ret = "results" =>
                  \A k \in 1..Len(op.st) : op.st[k] \in {"success", "failed"}

(* C17 witness: a batch that was not cancelled has returned with one item  *)
(* failed on the resolver's error, one on the item timer and one committed *)
C17_Witness ==
    \E o \in BatchOps :
        /\ ~ops[o].aborted /\ ops[o].ret = "results"
        /\ \E e \in SeqToSet(ops[o].results.errors) : e[2] = "timeout"
        /\ \E e \in SeqToSet(ops[o].results.errors) : e[2] = "notfound"
        /\ \E k \in 1..Len(ops[o].st) : ops[o].st[k] = "success"

(* The Entries of a feed in the order of the Entry list *)
EntrySeqOf(its, feedId) == SelectSeq(its, LAMBDA i : i.feedId = feedId)

(* C18: at every moment of a batch, success is the number of Feeds it has  *)
(* committed; each of them is in the Feed list once, with the URL of a     *)
(* candidate and with exactly the Entries converted from one parse of that *)
(* URL, unread and unstarred; no Feed of the list is lost: the Feed list   *)
(* holds exactly the Feeds committed by the add operations.                *)
C18_NoLostUpdate ==
    /\ \A o \in BatchOps :
          /\ ops[o].results.success = Len(ops[o].commits)
          /\ Count(ops[o].st, LAMBDA x : x = "success") = Len(ops[o].commits)
          /\ Cardinality(SeqToSet(ops[o].commits)) = Len(ops[o].commits)
          /\ \A id \in SeqToSet(ops[o].commits) :
                /\ Cardinality({f \in 1..Len(feeds) : feeds[f].id = id}) = 1
                /\ \A f \in 1..Len(feeds) : feeds[f].id = id =>
                      /\ feeds[f].url \in SeqToSet(ops[o].newUrls)
                      /\ \E out \in parseRSSFeed(feeds[f].url) :
                            /\ out.kind = "ok"
                            /\ \E ts \in Stamps(feeds[f].lastUpdated,
                                                 Len(out.parsed.items)) :
                                  EntrySeqOf(items, id)
                                     = convertToRSSItems(out.parsed.items, id, ts)
                /\ \A e \in EntriesOf(items, id) : ~e.isRead /\ ~e.isStarred
    /\ FeedIds(feeds) = UNION {SeqToSet(ops[o].commits) : o \in 1..Len(ops)}
    /\ Cardinality(FeedIds(feeds)) = Len(feeds)

(* C18 witness: a batch that was not interrupted has returned with two     *)
(* Feeds committed, one of them with two Entries                           *)
C18_Witness ==
    \E o \in BatchOps :
        /\ ~ops[o].aborted /\ ops[o].ret = "results"
        /\ ops[o].results.success = 2
        /\ \E id \in SeqToSet(ops[o].commits) : Len(EntrySeqOf(items, id)) = 2

(* C19: addFeed delivers a boolean, and true exactly when the call has     *)
(* committed a Feed.                                                       *)
C19_AddReturnsBoolean ==
    \A o \in AddOps :
        /\ ops[o].ret \in {"pending", "true", "false"}
        /\ ops[o].ret = "true" <=> ops[o].commits # << >>

(* addFeedsBatch([u]) seen from a Feed list with the URLs existingUrls *)
BatchOfOne(u, existingUrls) ==
    Prefilter([results |-> EmptyResults, validUrls |-> << >>], <<u>>, existingUrls)

(* C20: addFeed(u) starts a resolver call exactly when addFeedsBatch([u])  *)
(* has a candidate, and the Feed it commits has the source URL that the    *)
(* batch gives its candidate.                                              *)
C20_AddIsBatchOfOne ==
    \A o \in AddOps :
        LET pre == BatchOfOne(ops[o].urls[1], ops[o].existingUrls)
        IN  /\ (ops[o].index = 1) <=> (pre.validUrls # << >>)
            /\ \A f \in 1..Len(feeds) :
                  feeds[f].id \in SeqToSet(ops[o].commits) =>
                     /\ pre.validUrls # << >>
                     /\ feeds[f].url = pre.validUrls[1]

----------------------------------------------------------------------------
(* C21: after every committing mutation of the Feed list or the Entry list *)
(* a whole-collection snapshot is saved: from some point on, what a load   *)
(* reads back from storage is the in-memory Feed list and Entry list.      *)
C21_EventuallyPersisted ==
    <>[](loadFeeds(storage) = feeds /\ loadItems(storage) = items)

(* The entries that the refresh of r parsed, in parse order *)
ParsedSeq(r) ==
    convertToRSSItems(refreshes'[r].parsed.items, refreshes[r].feedId, refreshes'[r].stamps)

(* The flags that feed F's own entries hold for a link: those of its first *)
(* entry with the link, both FALSE if it has none                          *)
OwnFlags(its, feedId, link) ==
    LET own == SelectSeq(its, LAMBDA i : i.feedId = feedId /\ i.link = link)
    IN  IF own = << >> THEN <<FALSE, FALSE>> ELSE <<own[1].isRead, own[1].isStarred>>

(* C22: when the refresh of F commits, each merged entry has the flags of  *)
(* F's own entry with exactly its link, and is unread and unstarred if F   *)
(* has no entry with that link.                                            *)
C22_MatchPerFeed ==
    [][\A r \in 1..Len(refreshes) : RefreshCommits(r) =>
          \A k \in 1..Len(ParsedSeq(r)) :
              <<items'[k].isRead, items'[k].isStarred>>
                  = OwnFlags(items, refreshes[r].feedId, ParsedSeq(r)[k].link)]_vars

Unflagged(e) == [e EXCEPT !.isRead = FALSE, !.isStarred = FALSE]

(* C23: when the refresh of F commits, the entries of F are one per parsed *)
(* item in parse order, they come before every entry of another feed, and  *)
(* the entries of the other feeds are in the order they had.               *)
C23_RefreshReplaces ==
    [][\A r \in 1..Len(refreshes) : RefreshCommits(r) =>
          LET F == refreshes[r].feedId
              n == Len(ParsedSeq(r))
          IN  /\ Len(items') = n + Len(NotOfFeed(items, F))
              /\ \A k \in 1..n : Unflagged(items'[k]) = ParsedSeq(r)[k]
              /\ EntrySeqOf(items', F) = SubSeq(items', 1, n)
              /\ SubSeq(items', n + 1, Len(items')) = NotOfFeed(items, F)]_vars

(* A refresh has replaced the two entries of a feed by the one entry it    *)
(* parsed, ahead of the entry of another feed                              *)
C23_Witness ==
    \E r \in 1..Len(refreshes) :
        /\ refreshes[r].st = "done"
        /\ refreshes[r].parsed = FeedA1
        /\ Len(EntrySeqOf(items, refreshes[r].feedId)) = 1
        /\ \E f \in 1..Len(feeds) :
              /\ feeds[f].id = refreshes[r].feedId
              /\ feeds[f].title = "A"
        /\ Len(items) = 2
        /\ items[1].feedId = refreshes[r].feedId
        /\ items[2].feedId # refreshes[r].feedId

----------------------------------------------------------------------------
(* The resolver *)

Failures == {"status", "neterror", "timeout"}

(* The attempts of a call that have been issued *)
Attempts(call) == 0..Len(call.suffixes)

(* An attempt has ended with a parsed feed of at least one entry *)
HasEntries(att) ==
    /\ att.fetched = "text"
    /\ att.body.kind = "xml"
    /\ Len(att.body.feed.items) > 0

Succeeded(call) == {i \in 1..Len(call.suffixes) : HasEntries(call.suffixes[i])}

Ended(call) == call.out.kind # "pending"

(* C24: a call whose direct attempt failed ends with the feed of the first *)
(* suffix, in list order, whose attempt gave a feed with entries, whichever *)
(* attempt completed first, and fails only if no suffix attempt gave one.  *)
C24_SuffixPriority ==
    \A c \in DOMAIN calls :
        LET call == calls[c]
        IN  (Ended(call) /\ call.suffixes # << >>) =>
                /\ Succeeded(call) = {} <=> call.out.kind = "error"
                /\ \A i \in Succeeded(call) :
                      (\A j \in Succeeded(call) : i <= j) =>
                          /\ call.out.kind = "ok"
                          /\ call.out.parsed = Origin(AttemptUrl(call, i)).feed
                          /\ \E f \in 1..Len(feeds) : feeds[f].title = call.out.parsed.title

(* /rss was the first suffix to complete with a feed, /feed the one taken *)
C24_Witness ==
    \E c \in DOMAIN calls :
        /\ Ended(calls[c])
        /\ {1, 3} \subseteq Succeeded(calls[c])
        /\ calls[c].firstDone = 3
        /\ calls[c].out.parsed = FeedS1
        /\ Len(feeds) = 1 /\ feeds[1].title = "S"

(* C25: a call whose direct attempt gave a feed with entries has ended     *)
(* with that feed and has issued no suffix attempt.                        *)
C25_DirectFirst ==
    \A c \in DOMAIN calls :
        HasEntries(calls[c].direct) =>
            /\ calls[c].suffixes = << >>
            /\ calls[c].out = Returned(calls[c].direct.body.feed)

(* The URL was given with surrounding blanks and a trailing slash *)
C25_Witness ==
    \E c \in DOMAIN calls :
        /\ ops[c[1]].urls[1] = UrlBSlash
        /\ HasEntries(calls[c].direct)
        /\ calls[c].out.parsed = FeedB
        /\ Len(feeds) = 1 /\ Len(items) = 1

(* C26: a call that fails carries the last underlying error. *)
C26_NotFoundCarriesCause ==
    \A c \in DOMAIN calls : calls[c].out.kind = "error" => calls[c].out.cause # "none"

(* C27: in every attempt the relays answer in their order; a relay is      *)
(* fetched only after every relay before it failed; the attempt has the    *)
(* body of the first relay that answered with success, and it has failed   *)
(* exactly when all relays failed.                                         *)
C27_RelayOrder ==
    \A c \in DOMAIN calls : \A i \in Attempts(calls[c]) :
        LET att == AttemptOf(calls[c], i)
            n   == Len(att.tried)
        IN  /\ att.relay \in 1..Len(CORS_PROXIES)
            /\ n = IF att.fetched = "pending" THEN att.relay - 1 ELSE att.relay
            /\ \A r \in 1..(n - 1) : att.tried[r] \in Failures
            /\ att.fetched = "pending" /\ n > 0 => att.tried[n] \in Failures
            /\ att.fetched = "text" =>
                  /\ att.tried[n] = "ok"
                  /\ att.body = Origin(AttemptUrl(calls[c], i))
            /\ att.fetched = "thrown" <=>
                  /\ n = Len(CORS_PROXIES)
                  /\ \A r \in 1..n : att.tried[r] \in Failures

(* The third relay answered after a status of the first and a timeout of   *)
(* the second                                                              *)
C27_Witness ==
    \E c \in DOMAIN calls : \E i \in Attempts(calls[c]) :
        /\ AttemptOf(calls[c], i).tried = <<"status", "timeout", "ok">>
        /\ AttemptOf(calls[c], i).fetched = "text"
        /\ AttemptOf(calls[c], i).body = Xml(FeedS1)

(* The fetches in flight for the candidates of operation o *)
FetchesInFlight(o) ==
    {p \in pending \X (0..Len(RSS_SUFFIXES)) :
        p[1][1] = o /\ p[2] \in FetchesOf(CallOf(p[1]))}

(* C28: during a batch at most 10 fetches are in flight. *)
C28_FetchBound ==
    \A o \in BatchOps : Cardinality(FetchesInFlight(o)) <= MAX_CONCURRENT

(* Candidate k of operation o leaves the race in this step, uncancelled *)
Resolved(o, k) ==
    /\ o \in 1..Len(ops)
    /\ k \in Waiting(ops[o])
    /\ k \notin Waiting(ops'[o])
    /\ ~ops'[o].aborted

(* C29: when the resolver returns a feed without entries for a candidate,  *)
(* the candidate is failed with the message that the feed has no entries   *)
(* (a batch counts and lists it, addFeed returns false with it as the      *)
(* error), and the Feed list and the Entry list are as they were.          *)
C29_EmptyFeedFails ==
    [][\A c \in Candidates :
          (/\ Resolved(c[1], c[2])
           /\ ops[c[1]].newUrls[c[2]].body = UrlEmpty.body)
          => /\ feeds' = feeds /\ items' = items
             /\ ops'[c[1]].st[c[2]] = "failed"
             /\ IF ops[c[1]].kind = "batch"
                THEN /\ ops'[c[1]].results.failed = ops[c[1]].results.failed + 1
                     /\ ops'[c[1]].results.success = ops[c[1]].results.success
                     /\ ops'[c[1]].results.errors =
                           Append(ops[c[1]].results.errors,
                                  <<ops[c[1]].newUrls[c[2]], "noarticles">>)
                ELSE /\ ops'[c[1]].ret = "false"
                     /\ error' = "noarticles"]_vars

(* A batch of a feed with entries and a feed without has returned *)
C29_Witness ==
    \E o \in BatchOps :
        /\ ops[o].ret = "results"
        /\ ops[o].results.success = 1
        /\ ops[o].results.failed = 1
        /\ ops[o].results.errors = <<<<UrlEmpty, "noarticles">>>>
        /\ Len(feeds) = 1

(* C30: after every step, the candidates claimed in a batch are 1, 2, ...  *)
(* up to the shared index, each once and in input order; a batch that has  *)
(* returned uncancelled has claimed every candidate; and an operation      *)
(* whose token was aborted before the step claims nothing in it.           *)
C30_ClaimOnce ==
    [][\A o \in 1..Len(ops') :
          LET op == ops'[o]
          IN  /\ op.claimed = [k \in 1..op.index |-> k]
              /\ op.index <= Len(op.newUrls)
              /\ \A k \in 1..Len(op.newUrls) : op.st[k] # "unclaimed" <=> k <= op.index
              /\ (op.kind = "batch" /\ op.ret = "results" /\ ~op.aborted)
                    => op.index = Len(op.newUrls)
              /\ (o <= Len(ops) /\ ops[o].aborted) => op.claimed = ops[o].claimed]_vars

(* A batch of more candidates than workers has returned with every         *)
(* candidate claimed                                                       *)
C30_Witness ==
    \E o \in BatchOps :
        /\ ops[o].ret = "results"
        /\ ~ops[o].aborted
        /\ Len(ops[o].newUrls) = MAX_CONCURRENT + PoolExtra
        /\ ops[o].claimed = [k \in 1..(MAX_CONCURRENT + PoolExtra) |-> k]
        /\ Waiting(ops[o]) = {}

(* The candidates of an operation that finished with success or failure *)
Finished(op) == {k \in 1..Len(op.st) : op.st[k] \in {"success", "failed"}}

(* C31: the progress callback has been invoked once per candidate that     *)
(* finished with success or failure, with the count of them: never for a   *)
(* candidate in flight, never for one abandoned on cancellation and never  *)
(* once the token of the batch is aborted.                                 *)
C31_ProgressOnlyOnFinish ==
    \A o \in BatchOps :
        /\ Len(ops[o].progress) = Cardinality(Finished(ops[o]))
        /\ \A j \in 1..Len(ops[o].progress) : ops[o].progress[j] = <<j, ops[o].total>>

(* A cancelled batch: one candidate had finished and was reported, two     *)
(* were abandoned and were not                                             *)
C31_Witness ==
    \E o \in BatchOps :
        /\ ops[o].aborted
        /\ Cardinality(Finished(ops[o])) = 1
        /\ Cardinality({k \in 1..Len(ops[o].st) : ops[o].st[k] = "cancelled"}) = 2
        /\ ops[o].completed = 3
        /\ ops[o].progress = << <<1, 3>> >>

(* The refreshFeed calls that refreshAllFeeds call a has made, in order *)
RefreshesOf(a) == SelectSeq(refreshes, LAMBDA r : r.all = a)

(* The chunk of the j-th feed of a list, counted from 0 *)
ChunkOf(j) == (j - 1) \div CONCURRENT_REQUESTS

(* C32: a refreshAllFeeds call over n feeds refreshes the feeds of its     *)
(* list in order; while a refresh of one chunk of 10 is unfinished no      *)
(* refresh of a later chunk has started; it has reported (0, n), (1, n),   *)
(* ... one step per finished refresh, and (n, n) when it has ended.        *)
C32_ChunkedRefresh ==
    \A a \in 1..Len(refreshAlls) :
        LET call == refreshAlls[a]
            rs   == RefreshesOf(a)
            done == {j \in 1..Len(rs) : rs[j].st # "waiting"}
        IN  /\ Len(rs) <= call.total
            /\ \A j \in 1..Len(rs) : rs[j].feedId = call.feeds[j].id
            /\ \A i, j \in 1..Len(rs) : ChunkOf(i) < ChunkOf(j) => i \in done
            /\ Cardinality((1..Len(rs)) \ done) <= CONCURRENT_REQUESTS
            /\ call.completedCount = Cardinality(done)
            /\ call.reports = [j \in 1..(call.completedCount + 1) |-> <<j - 1, call.total>>]
            /\ call.st = "done" <=> call.completedCount = call.total

(* A call over more feeds than a chunk holds has ended: the last refresh   *)
(* succeeded, others failed                                                *)
C32_Witness ==
    \E a \in 1..Len(refreshAlls) :
        /\ refreshAlls[a].st = "done"
        /\ refreshAlls[a].total = ManyFeeds
        /\ Len(RefreshesOf(a)) = ManyFeeds
        /\ RefreshesOf(a)[ManyFeeds].st = "done"
        /\ RefreshesOf(a)[2].st = "failed"
        /\ Len(refreshAlls[a].reports) = ManyFeeds + 1
        /\ refreshProgress = NoProgress
        /\ ~isLoading

(* C33: every key of the translation cache is the id of an Entry of the   *)
(* Entry list.                                                             *)
C33_TranslationsOfEntries == ItemIds(translationCache) \subseteq ItemIds(items)

(* C34: every addFeed and addFeedsBatch call returns, isLoading becomes   *)
(* false again, and every refreshAllFeeds call finishes and clears its     *)
(* progress, whatever the resolver calls do, as long as the timers fire.   *)
C34_IngestionTerminates ==
    /\ \A o \in 1..MaxLive :
          (Len(ops) >= o) ~> (Len(ops) >= o /\ ops[o].ret # "pending")
    /\ isLoading ~> ~isLoading
    /\ \A a \in 1..MaxRefreshAll :
          (Len(refreshAlls) >= a) ~> (Len(refreshAlls) >= a /\ refreshAlls[a].st = "done")
    /\ (refreshProgress # NoProgress) ~> (refreshProgress = NoProgress)

(* A batch has returned after the timer ended the race of a candidate, and *)
(* a refreshAllFeeds call over the feed it committed has finished          *)
C34_Witness ==
    /\ \E o \in 1..Len(ops) :
          /\ ops[o].kind = "batch"
          /\ ops[o].ret # "pending"
          /\ \E e \in 1..Len(ops[o].results.errors) :
                ops[o].results.errors[e][2] = "timeout"
    /\ \E a \in 1..Len(refreshAlls) :
          /\ refreshAlls[a].st = "done"
          /\ refreshAlls[a].total = Len(feeds)
    /\ feeds # << >>
    /\ ~isLoading
    /\ refreshProgress = NoProgress

(* C35: a refresh that fails leaves the Feed list and the Entry list as   *)
(* they are and queues no update of them, and lastUpdated of a feed        *)
(* changes only by an update that a successful refresh of that feed has    *)
(* queued.                                                                 *)
RefreshEnds(r, st) == refreshes[r].st = "waiting" /\ refreshes'[r].st = st

C35_FailedRefreshNoEffect ==
    [][/\ \A r \in 1..Len(refreshes) :
             RefreshEnds(r, "failed") =>
                feeds' = feeds /\ items' = items /\ updaters' = updaters
       /\ \A f \in 1..Len(feeds), g \in 1..Len(feeds') :
             (feeds'[g].id = feeds[f].id /\ feeds'[g].lastUpdated # feeds[f].lastUpdated)
                => \E q \in 1..Len(updaters.feeds) : updaters.feeds[q] = feeds[f].id
       /\ \A q \in 1..Len(updaters'.feeds) :
             q > Len(updaters.feeds) =>
                \E r \in 1..Len(refreshes) :
                   refreshes[r].feedId = updaters'.feeds[q] /\ RefreshEnds(r, "done")]_vars

(* A refresh has failed after the clock has advanced and an entry was     *)
(* flagged while it was in flight; no update is queued or waits for a      *)
(* render, and the feed has the lastUpdated it had                         *)
C35_Witness ==
    \E r \in 1..Len(refreshes), f \in 1..Len(feeds) :
        /\ refreshes[r].st = "failed"
        /\ feeds[f].id = refreshes[r].feedId
        /\ feeds[f].lastUpdated < now
        /\ userActs > 0
        /\ updaters = NoUpdaters
        /\ dirty = {}

(* C36: when a refresh of a feed commits, every entry of the feed whose    *)
(* link is unique in the collection and is in the new parse is merged with *)
(* the flags it has at that moment, those set while the refresh was in     *)
(* flight included.                                                        *)
UniqueLink(list, k) == \A j \in 1..Len(list) : list[j].link = list[k].link => j = k

InParse(parsed, link) == \E j \in 1..Len(parsed.items) : parsed.items[j].link = link

C36_FlagsSurviveRefresh ==
    [][\A r \in 1..Len(refreshes) : RefreshEnds(r, "done") =>
          \A k \in 1..Len(items) :
             (/\ items[k].feedId = refreshes[r].feedId
              /\ UniqueLink(items, k)
              /\ InParse(refreshes'[r].parsed, items[k].link))
             => \E j \in 1..Len(items') :
                   /\ items'[j].feedId = items[k].feedId
                   /\ items'[j].link = items[k].link
                   /\ items'[j].isRead = items[k].isRead
                   /\ items'[j].isStarred = items[k].isStarred]_vars

(* A refresh has committed an entry that the user starred and read while   *)
(* the refresh was in flight; the entry is a new one, converted later than *)
(* the stored one                                                          *)
C36_Witness ==
    \E r \in 1..Len(refreshes), j \in 1..Len(items) :
        /\ refreshes[r].st = "done"
        /\ items[j].feedId = refreshes[r].feedId
        /\ items[j].isStarred /\ items[j].isRead
        /\ items[j].id[3] > 0

(* C37: the ids of the Entries of the collection are pairwise distinct.    *)
C37_UniqueIds ==
    \A j, k \in 1..Len(items) : items[j].id = items[k].id => j = k

(* C38: storage is written only after the initial load has completed,    *)
(* with or without the second run of the mount effects under StrictMode.   *)
C38_NoSaveBeforeLoad ==
    [][storage' # storage => isDataLoadedRef /\ isInitialLoadCompleteRef]_vars

(* Before the 0 ms timer of the load has fired, the user has removed the   *)
(* stored feed, the render and the effects of the render have run, and     *)
(* storage still holds the feed                                            *)
C38_Witness ==
    /\ isDataLoadedRef
    /\ ~isInitialLoadCompleteRef
    /\ dirty = {}
    /\ effects = {}
    /\ rendered = Rendering
    /\ translationCache # << >>
    /\ feeds = << >>
    /\ storage.feeds # << >>

(* C39: markAsRead(id, v) sets isRead to v on the Entries with that id    *)
(* and toggleStar(id) negates isStarred on them, twice restoring the       *)
(* list; markAllAsRead(F) sets isRead on the Entries of feed F, on all     *)
(* when F is omitted; no other field, no other Entry, not the order of the *)
(* Entries and not the Feed list is changed.                               *)
Without(item, field) == [f \in DOMAIN item \ {field} |-> item[f]]

FrameOfMarkAsRead ==
    \A k \in 1..Len(items), v \in BOOLEAN :
        LET r == markAsRead(items, items[k].id, v)
        IN  /\ Len(r) = Len(items)
            /\ \A j \in 1..Len(items) :
                  IF items[j].id = items[k].id
                  THEN /\ r[j].isRead = v
                       /\ Without(r[j], "isRead") = Without(items[j], "isRead")
                  ELSE r[j] = items[j]

FrameOfToggleStar ==
    \A k \in 1..Len(items) :
        LET r == toggleStar(items, items[k].id)
        IN  /\ Len(r) = Len(items)
            /\ \A j \in 1..Len(items) :
                  IF items[j].id = items[k].id
                  THEN /\ r[j].isStarred = ~items[j].isStarred
                       /\ Without(r[j], "isStarred") = Without(items[j], "isStarred")
                  ELSE r[j] = items[j]
            /\ toggleStar(r, items[k].id) = items

FrameOfMarkAllAsRead ==
    \A feedId \in {NoFeed} \cup FeedIds(feeds) :
        LET r == markAllAsRead(items, feedId)
        IN  /\ Len(r) = Len(items)
            /\ \A j \in 1..Len(items) :
                  IF feedId = NoFeed \/ items[j].feedId = feedId
                  THEN /\ r[j].isRead
                       /\ Without(r[j], "isRead") = Without(items[j], "isRead")
                  ELSE r[j] = items[j]

FlagActionResults ==
    {markAsRead(items, items[k].id, v) : k \in 1..Len(items), v \in BOOLEAN}
       \cup {toggleStar(items, items[k].id) : k \in 1..Len(items)}
       \cup {markAllAsRead(items, feedId) : feedId \in {NoFeed} \cup FeedIds(feeds)}

C39_FlagFrame ==
    /\ [](FrameOfMarkAsRead /\ FrameOfToggleStar /\ FrameOfMarkAllAsRead)
    /\ [][userActs' # userActs => feeds' = feeds /\ items' \in FlagActionResults]_vars

(* The user has acted on a collection of two feeds: an Entry is starred    *)
(* and read, and an Entry of another feed is neither                       *)
C39_Witness ==
    /\ userActs > 0
    /\ \E j, k \in 1..Len(items) :
          /\ items[j].feedId # items[k].feedId
          /\ items[j].isStarred /\ items[j].isRead
          /\ ~items[k].isStarred /\ ~items[k].isRead

====
